---- MODULE Spec2Model ----
(***************************************************************************)
(* A model of resume-tailor: the canonical text renderer                   *)
(* (app/render_text.py), the structural diff (app/diff.py), the reverse    *)
(* parser (tools/pdf_to_yaml.py) and the tailoring pipeline                *)
(* (app/pipeline.py, app/align.py, app/ollama_client.py).                  *)
(*                                                                         *)
(* A Python str is a sequence of one-character strings; the characters     *)
(* outside ASCII are named: "BULLET" is U+2022, "ARROW" is U+2192,         *)
(* "CHECK" is U+2705 and "CROSS" is U+274C; "BACKTICK" is U+0060.          *)
(***************************************************************************)
EXTENDS Integers, Sequences, FiniteSets, TLC

VARIABLES
    pc,         \* the position of the component under check
    resume,     \* resume_to_text: the Document rendered
    resume2,    \* resume_to_text: a second Document, compared with the first
    text,       \* resume_to_text(resume): [raised, text]
    text2,      \* resume_to_text(resume2): [raised, text]
    base,       \* make_diff_markdown: the base Document
    tailored,   \* make_diff_markdown: the tailored Document
    diff_md,    \* make_diff_markdown(base, tailored): [raised, text]
    raw,        \* pdf_to_yaml.main: the text extracted from the PDF
    lines,      \* pdf_to_yaml.main: normalize_lines(raw)
    header,     \* pdf_to_yaml.main: (name, contact, header_end) of parse_header
    body_lines, \* pdf_to_yaml.main: lines[header_end:]
    section_indices, \* pdf_to_yaml.main: find_section_indices(body_lines)
    data,       \* pdf_to_yaml.main: the Document written
    jd,         \* run_pipeline: the scraped job description
    response,   \* the alignment service's answer, as tokens
    tailored_type, \* the Python type of tailored: "dict", "list", or "none" before align
    score_data, \* compute_ats_score_llm: the scoring service's answer, as parsed
    ats,        \* run_pipeline: the result of compute_ats_score_llm
    diff_patch, \* run_pipeline: make_unified_diff(base, tailored)
    error,      \* the exception that ended run_pipeline, "" when none
    exp_lines,  \* parse_experience: its argument lines
    cursor,     \* parse_experience: the index i, counted from 0
    exp_jobs,   \* parse_experience: jobs
    open_job,   \* parse_experience: role, company, location, dates, bullets, tech_stack
    trail       \* history: the lines consumed so far, [line, as], in the order consumed

renderVars == <<resume, resume2, text, text2>>
diffVars == <<base, tailored, diff_md>>
parseVars == <<raw, lines, header, body_lines, section_indices, data>>
pipelineVars == <<jd, response, tailored_type, score_data, ats, diff_patch, error>>
experienceVars == <<exp_lines, cursor, exp_jobs, open_job, trail>>
vars == <<pc, renderVars, diffVars, parseVars, pipelineVars, experienceVars>>

----------------------------------------------------------------------------
(* Characters and strings                                                  *)

\* The characters of the model, in code point order.
Chars ==
    << "\n", " ", "#", "(", ")", "*", ",", "-", ".", "/",
       "0", "1", "2", "3", "4", "5", "6", "7", "8", "9", ":", "@",
       "A", "B", "C", "D", "E", "F", "G", "H", "I", "J", "K", "L", "M",
       "N", "O", "P", "Q", "R", "S", "T", "U", "V", "W", "X", "Y", "Z",
       "[", "]", "_", "BACKTICK",
       "a", "b", "c", "d", "e", "f", "g", "h", "i", "j", "k", "l", "m",
       "n", "o", "p", "q", "r", "s", "t", "u", "v", "w", "x", "y", "z",
       "{", "|", "}", "BULLET", "ARROW", "CHECK", "CROSS" >>

CharSet == {Chars[i] : i \in 1..Len(Chars)}

\* ord(c), up to an order-preserving renumbering
Ord == [c \in CharSet |-> CHOOSE i \in 1..Len(Chars) : Chars[i] = c]

OrdA == Ord["A"]
OrdZ == Ord["Z"]
Orda == Ord["a"]
Ordz == Ord["z"]

\* str.isspace of one character
IsSpace(c) == c \in {" ", "\n"}

LowerChar(c) == IF Ord[c] >= OrdA /\ Ord[c] <= OrdZ THEN Chars[Ord[c] - OrdA + Orda] ELSE c
UpperChar(c) == IF Ord[c] >= Orda /\ Ord[c] <= Ordz THEN Chars[Ord[c] - Orda + OrdA] ELSE c
IsAlpha(c) == (Ord[c] >= OrdA /\ Ord[c] <= OrdZ) \/ (Ord[c] >= Orda /\ Ord[c] <= Ordz)

\* str.lower, str.upper
Lower(s) == [i \in 1..Len(s) |-> LowerChar(s[i])]
Upper(s) == [i \in 1..Len(s) |-> UpperChar(s[i])]

\* str.title: a letter that follows a non-letter is upper-cased, every other letter lower-cased
Title(s) ==
    [i \in 1..Len(s) |->
        IF i = 1 \/ ~IsAlpha(s[i - 1]) THEN UpperChar(s[i]) ELSE LowerChar(s[i])]

\* str.lstrip(cs), str.rstrip(cs), str.strip(cs) for a set of characters cs
LStripChars(s, cs) ==
    LET keep == {i \in 1..Len(s) : s[i] \notin cs}
    IN  IF keep = {} THEN <<>>
        ELSE SubSeq(s, CHOOSE i \in keep : \A j \in keep : i <= j, Len(s))

RStripChars(s, cs) ==
    LET keep == {i \in 1..Len(s) : s[i] \notin cs}
    IN  IF keep = {} THEN <<>>
        ELSE SubSeq(s, 1, CHOOSE i \in keep : \A j \in keep : i >= j)

StripChars(s, cs) == LStripChars(RStripChars(s, cs), cs)

Whitespace == {" ", "\n"}

Strip(s) == StripChars(s, Whitespace)
RStrip(s) == RStripChars(s, Whitespace)

\* s trimmed, every run of whitespace one space
Collapse(s) ==
    LET t == Strip(s)
        keep == {i \in 1..Len(t) : ~(IsSpace(t[i]) /\ IsSpace(t[i - 1]))}
        Nth(n) == CHOOSE i \in keep : Cardinality({j \in keep : j < i}) = n - 1
    IN  [n \in 1..Cardinality(keep) |-> IF IsSpace(t[Nth(n)]) THEN " " ELSE t[Nth(n)]]

\* str.splitlines of a text whose line breaks are "\n"
SplitLines(t) ==
    LET brk == {i \in 1..Len(t) : t[i] = "\n"} \cup {Len(t) + 1}
        starts == {1} \cup {i + 1 : i \in {j \in brk : j < Len(t)}}
        Nth(n) == CHOOSE i \in starts : Cardinality({j \in starts : j < i}) = n - 1
        End(i) == CHOOSE e \in brk : e >= i /\ \A f \in brk : f >= i => e <= f
    IN  IF t = <<>> THEN <<>>
        ELSE [n \in 1..Cardinality(starts) |-> SubSeq(t, Nth(n), End(Nth(n)) - 1)]

\* the elements of a list, as a set
Range(xs) == {xs[i] : i \in 1..Len(xs)}

\* xs without its empty strings
NonEmpty(xs) == SelectSeq(xs, LAMBDA x : x # <<>>)

\* s < t for Python strings: lexicographic in code points
StrLess(s, t) ==
    \E i \in 1..(Len(t)) :
        /\ i <= Len(s) + 1
        /\ \A j \in 1..(i - 1) : s[j] = t[j]
        /\ \/ i = Len(s) + 1
           \/ (i <= Len(s) /\ Ord[s[i]] < Ord[t[i]])

\* a < b for Python tuples of strings of the same length
TupleLess(a, b) ==
    \E i \in 1..Len(a) :
        /\ \A j \in 1..(i - 1) : a[j] = b[j]
        /\ StrLess(a[i], b[i])

\* sep.join(parts)
RECURSIVE Join(_, _)
Join(sep, parts) ==
    IF parts = <<>> THEN <<>>
    ELSE IF Len(parts) = 1 THEN parts[1]
    ELSE parts[1] \o sep \o Join(sep, Tail(parts))

\* s.startswith(p)
StartsWith(s, p) == Len(s) >= Len(p) /\ SubSeq(s, 1, Len(p)) = p

\* x in xs, for a list xs
InList(x, xs) == \E i \in 1..Len(xs) : xs[i] = x

\* a slip of NotInOther: [x for x in xs if x in ys]
RECURSIVE InOther(_, _)
InOther(xs, ys) ==
    IF xs = <<>> THEN <<>>
    ELSE (IF InList(Head(xs), ys) THEN <<Head(xs)>> ELSE <<>>) \o InOther(Tail(xs), ys)

\* [x for x in xs if x not in ys]
RECURSIVE NotInOther(_, _)
NotInOther(xs, ys) ==
    IF xs = <<>> THEN <<>>
    ELSE (IF InList(Head(xs), ys) THEN <<>> ELSE <<Head(xs)>>) \o NotInOther(Tail(xs), ys)

\* xs[0] + xs[1] + ... for a list of lists
RECURSIVE Concat(_)
Concat(xss) == IF xss = <<>> THEN <<>> ELSE Head(xss) \o Concat(Tail(xss))

----------------------------------------------------------------------------
(* Documents (the dicts loaded from YAML or JSON)                          *)
(*                                                                         *)
(* A Document is [keys, name, contact, sections]: keys holds the top-level *)
(* keys the dict has. A Section is [title, type, keys, items, blocks,      *)
(* jobs, paragraphs]: keys holds the payload keys the dict has, and a      *)
(* payload field whose key is absent holds <<>>. A Job is [role, company,  *)
(* location, dates, bullets, tech_stack]; a block is [label, text].        *)

\* resume.get("name", "")
DocName(d) == IF "name" \in d.keys THEN d.name ELSE <<>>

\* resume.get("contact", {}) or {}, with contact.get(f, "") for each field
DocContact(d) ==
    IF "contact" \in d.keys THEN d.contact
    ELSE [location |-> <<>>, email |-> <<>>, linkedin |-> <<>>]

\* resume.get("sections", [])
DocSections(d) == IF "sections" \in d.keys THEN d.sections ELSE <<>>

\* sec.get(f, []) or []: an absent payload reads as the empty list
SecGet(sec, f) ==
    [raised |-> FALSE, val |-> IF f \in sec.keys THEN sec[f] ELSE <<>>]

\* the section types
tBullets == <<"b","u","l","l","e","t","s">>
tEducation == <<"e","d","u","c","a","t","i","o","n">>
tCoreCompetencies == <<"c","o","r","e","_","c","o","m","p","e","t","e","n","c","i","e","s">>
tExperience == <<"e","x","p","e","r","i","e","n","c","e">>
tOther == <<"o","t","h","e","r">>

----------------------------------------------------------------------------
(* app/render_text.py                                                      *)

Dash == <<"-", " ">>

\* the contact line: " | ".join([location, email, linkedin]).strip(" |")
ContactLine(contact) ==
    StripChars(
        Join(<<" ", "|", " ">>,
             <<Strip(contact.location), Strip(contact.email), Strip(contact.linkedin)>>),
        {" ", "|"})

\* the lines of one job
JobLines(job) ==
    LET role == Strip(job.role)
        company == Strip(job.company)
        location == Strip(job.location)
        dates == Strip(job.dates)
        tech == Strip(job.tech_stack)
    IN  << StripChars(role \o <<" ", "-", " ">> \o company \o <<",", " ">> \o location,
                      {" ", "-", ","}) >>
        \o (IF dates # <<>> THEN << <<"[">> \o dates \o <<"]">> >> ELSE <<>>)
        \o [i \in 1..Len(job.bullets) |-> Strip(Dash \o job.bullets[i])]
        \o (IF tech # <<>>
            THEN << <<"T","e","c","h"," ","s","t","a","c","k",":"," ">> \o tech >>
            ELSE <<>>)

\* the lines of one section after its title line: [raised, val]
SectionBody(sec) ==
    IF Strip(sec.type) \in {tBullets, tEducation}
    THEN LET got == SecGet(sec, "items")
         IN  [raised |-> got.raised,
              val |-> [i \in 1..Len(got.val) |-> Strip(Dash \o got.val[i])]]
    ELSE IF Strip(sec.type) = tCoreCompetencies
    THEN LET got == SecGet(sec, "blocks")
         IN  [raised |-> got.raised,
              val |-> [i \in 1..Len(got.val) |->
                          Strip(Strip(got.val[i].label) \o <<" ">> \o Strip(got.val[i].text))]]
    ELSE IF Strip(sec.type) = tExperience
    THEN LET got == SecGet(sec, "jobs")
         IN  [raised |-> got.raised,
              val |-> Concat([i \in 1..Len(got.val) |-> JobLines(got.val[i])])]
    ELSE LET got == SecGet(sec, "paragraphs")
         IN  [raised |-> got.raised, val |-> got.val]

\* the list out, before it is joined
RenderLines(d) ==
    << Strip(DocName(d)), ContactLine(DocContact(d)) >>
    \o Concat([i \in 1..Len(DocSections(d)) |->
                  << <<>>, Upper(Strip(DocSections(d)[i].title)) >>
                  \o SectionBody(DocSections(d)[i]).val])

\* resume_to_text(resume): [raised, text]
resume_to_text(d) ==
    LET out == RenderLines(d)
        raises == \E i \in 1..Len(DocSections(d)) : SectionBody(DocSections(d)[i]).raised
    IN  IF raises THEN [raised |-> TRUE, text |-> <<>>]
        ELSE [raised |-> FALSE,
              text |-> Strip(Join(<<"\n">>, [i \in 1..Len(out) |-> RStrip(out[i])]))
                       \o <<"\n">>]

----------------------------------------------------------------------------
(* app/diff.py                                                             *)

\* a slip of TitleKey: the title trimmed, its case kept
TitleKeyCaseSensitive(title) == Strip(title)

\* the key a section is matched by: (s.get("title") or "").strip().lower()
TitleKey(title) == Lower(Strip(title))

\* a slip of JobKey: the fields as they are, not trimmed
JobKeyUntrimmed(job) == <<job.role, job.company, job.dates>>

\* the identity of a job: (role, company, dates), each trimmed
JobKey(job) == <<Strip(job.role), Strip(job.company), Strip(job.dates)>>

\* a slip of SortedTitles: the titles in descending order
SortedTitlesDescending(S) ==
    [n \in 1..Cardinality(S) |->
        CHOOSE x \in S : Cardinality({y \in S : StrLess(x, y)}) = n - 1]

\* sorted(S) for a set S of strings
SortedTitles(S) ==
    [n \in 1..Cardinality(S) |->
        CHOOSE x \in S : Cardinality({y \in S : StrLess(y, x)}) = n - 1]

\* sorted(S) for a set S of job keys
SortedKeys(S) ==
    [n \in 1..Cardinality(S) |->
        CHOOSE x \in S : Cardinality({y \in S : TupleLess(y, x)}) = n - 1]

\* the jobs of every experience section of the Document, in document order: [raised, val]
ExperienceJobs(d) ==
    LET secs == DocSections(d)
        got(i) == IF secs[i].type = tExperience THEN SecGet(secs[i], "jobs")
                  ELSE [raised |-> FALSE, val |-> <<>>]
    IN  [raised |-> \E i \in 1..Len(secs) : got(i).raised,
         val |-> Concat([i \in 1..Len(secs) |-> got(i).val])]

\* _index_experience(resume): the dict from job key to job; a later job replaces an
\* earlier one of the same key
index_experience(d) ==
    LET jobs == ExperienceJobs(d).val
        keys == {JobKey(jobs[i]) : i \in 1..Len(jobs)}
    IN  [k \in keys |->
            jobs[CHOOSE i \in 1..Len(jobs) :
                    /\ JobKey(jobs[i]) = k
                    /\ \A j \in (i + 1)..Len(jobs) : JobKey(jobs[j]) # k]]

\* { title key : s for s in sections }: a later section replaces an earlier one of the
\* same key
SectionsByTitle(d) ==
    LET secs == DocSections(d)
        keys == {TitleKey(secs[i].title) : i \in 1..Len(secs)}
    IN  [k \in keys |->
            secs[CHOOSE i \in 1..Len(secs) :
                    /\ TitleKey(secs[i].title) = k
                    /\ \A j \in (i + 1)..Len(secs) : TitleKey(secs[j].title) # k]]

H2 == <<"#","#"," ">>
H3 == <<"#","#","#"," ">>
AddedSection == <<"-"," ","CHECK"," ","A","d","d","e","d"," ","s","e","c","t","i","o","n">>
RemovedSection == <<"-"," ","CROSS"," ","R","e","m","o","v","e","d"," ","s","e","c","t","i","o","n">>
NoChange == <<"-"," ","N","o"," ","c","h","a","n","g","e">>
AddedJob == <<"-"," ","CHECK"," ","A","d","d","e","d"," ","j","o","b"," ","b","l","o","c","k">>
RemovedJob == <<"-"," ","CROSS"," ","R","e","m","o","v","e","d"," ","j","o","b"," ","b","l","o","c","k">>
AddedBullets == <<"*","*","A","d","d","e","d"," ","b","u","l","l","e","t","s","*","*">>
RemovedBullets == <<"*","*","R","e","m","o","v","e","d"," ","b","u","l","l","e","t","s","*","*">>
TechStackLine == <<"*","*","T","e","c","h"," ","s","t","a","c","k","*","*",":"," ","BACKTICK">>
NotDiffed == <<"-"," ","(","S","e","c","t","i","o","n"," ","t","y","p","e"," ","n","o","t"," ","d","i","f","f","e","d"," ","i","n"," ","d","e","t","a","i","l"," ","y","e","t",")">>

\* f"### {role} - {company} [{dates}]".strip()
JobHeader(k) ==
    Strip(H3 \o k[1] \o <<" ", "-", " ">> \o k[2] \o <<" ", "[">> \o k[3] \o <<"]">>)

\* the lines of a section of type bullets or education present in both Documents
ItemsDiff(bitems, aitems) ==
    LET added == NotInOther(aitems, bitems)
        removed == NotInOther(bitems, aitems)
    IN  IF added = <<>> /\ removed = <<>> THEN <<NoChange>>
        ELSE (IF added # <<>>
              THEN <<<<"#","#","#"," ","A","d","d","e","d">>>> \o [i \in 1..Len(added) |-> Dash \o added[i]]
              ELSE <<>>)
             \o (IF removed # <<>>
                 THEN <<<<"#","#","#"," ","R","e","m","o","v","e","d">>>> \o [i \in 1..Len(removed) |-> Dash \o removed[i]]
                 ELSE <<>>)

\* the lines of a core_competencies section present in both Documents
BlocksDiff(bblocks, ablocks) ==
    IF bblocks = ablocks THEN <<NoChange>>
    ELSE << <<"-"," ","U","p","d","a","t","e","d"," ","c","o","m","p","e","t","e","n","c","y"," ","b","l","o","c","k","s"," ","(","r","e","v","i","e","w"," ","b","e","l","o","w",")">>, <<>>, <<"#","#","#"," ","T","a","i","l","o","r","e","d">> >>
         \o [i \in 1..Len(ablocks) |->
                Strip(<<"-"," ","*","*">> \o ablocks[i].label \o <<"*","*"," ">> \o ablocks[i].text)]

\* the lines of the job block of key k
JobBlock(k, bidx, aidx) ==
    IF k \notin DOMAIN bidx THEN <<JobHeader(k), AddedJob, <<>> >>
    ELSE IF k \notin DOMAIN aidx THEN <<JobHeader(k), RemovedJob, <<>> >>
    ELSE LET added == NotInOther(aidx[k].bullets, bidx[k].bullets)
             removed == NotInOther(bidx[k].bullets, aidx[k].bullets)
             btech == Strip(bidx[k].tech_stack)
             atech == Strip(aidx[k].tech_stack)
         IN  IF added = <<>> /\ removed = <<>> /\ btech = atech
             THEN <<JobHeader(k), NoChange, <<>> >>
             ELSE <<JobHeader(k)>>
                  \o (IF added # <<>>
                      THEN <<AddedBullets>> \o [i \in 1..Len(added) |-> Dash \o added[i]]
                      ELSE <<>>)
                  \o (IF removed # <<>>
                      THEN <<RemovedBullets>> \o [i \in 1..Len(removed) |-> Dash \o removed[i]]
                      ELSE <<>>)
                  \o (IF btech # atech
                      THEN << TechStackLine \o btech \o <<"BACKTICK"," ","ARROW"," ","BACKTICK">> \o atech \o <<"BACKTICK">> >>
                      ELSE <<>>)
                  \o << <<>> >>

\* the lines of an experience section present in both Documents
ExperienceDiff(b, a) ==
    LET bidx == index_experience(b)
        aidx == index_experience(a)
        keys == SortedKeys(DOMAIN bidx \cup DOMAIN aidx)
    IN  Concat([n \in 1..Len(keys) |-> JobBlock(keys[n], bidx, aidx)])

\* the lines reported for the title key t: [raised, val]
TitleLines(t, b, a) ==
    LET bs == SectionsByTitle(b)
        as == SectionsByTitle(a)
        title == Strip(IF t \in DOMAIN as THEN as[t].title ELSE bs[t].title)
    IN  IF t \notin DOMAIN bs
        THEN [raised |-> FALSE, val |-> <<H2 \o title, AddedSection, <<>> >>]
        ELSE IF t \notin DOMAIN as
        THEN [raised |-> FALSE, val |-> <<H2 \o title, RemovedSection, <<>> >>]
        ELSE LET btype == bs[t].type
                 atype == as[t].type
                 head == <<H2 \o title>>
                         \o (IF btype # atype
                             THEN << <<"-"," ","T","y","p","e"," ","c","h","a","n","g","e","d",":"," ","BACKTICK">> \o btype \o <<"BACKTICK"," ","ARROW"," ","BACKTICK">> \o atype
                                     \o <<"BACKTICK">> >>
                             ELSE <<>>)
             IN  IF atype \in {tBullets, tEducation}
                 THEN LET bi == SecGet(bs[t], "items")
                          ai == SecGet(as[t], "items")
                      IN  [raised |-> bi.raised \/ ai.raised,
                           val |-> head \o ItemsDiff(bi.val, ai.val) \o << <<>> >>]
                 ELSE IF atype = tCoreCompetencies
                 THEN LET bb == SecGet(bs[t], "blocks")
                          ab == SecGet(as[t], "blocks")
                      IN  [raised |-> bb.raised \/ ab.raised,
                           val |-> head \o BlocksDiff(bb.val, ab.val) \o << <<>> >>]
                 ELSE IF atype = tExperience
                 THEN [raised |-> ExperienceJobs(b).raised \/ ExperienceJobs(a).raised,
                       val |-> head \o ExperienceDiff(b, a) \o << <<>> >>]
                 ELSE [raised |-> FALSE, val |-> head \o <<NotDiffed, <<>> >>]

\* the list lines, before it is joined: [raised, val]
DiffLines(b, a) ==
    LET titles == SortedTitles(DOMAIN SectionsByTitle(b) \cup DOMAIN SectionsByTitle(a))
        per == [n \in 1..Len(titles) |-> TitleLines(titles[n], b, a)]
    IN  [raised |-> \E n \in 1..Len(titles) : per[n].raised,
         val |-> << <<"#"," ","R","e","s","u","m","e"," ","D","i","f","f">>, <<>>, <<"#","#"," ","H","i","g","h","-","l","e","v","e","l">>,
                    <<"-"," ","N","a","m","e",":"," ","BACKTICK">> \o DocName(b) \o <<"BACKTICK"," ","ARROW"," ","BACKTICK">> \o DocName(a) \o <<"BACKTICK">>,
                    <<>> >>
                 \o Concat([n \in 1..Len(titles) |-> per[n].val])]

\* make_diff_markdown(base, tailored): [raised, text]
make_diff_markdown(b, a) ==
    LET out == DiffLines(b, a)
    IN  IF out.raised THEN [raised |-> TRUE, text |-> <<>>]
        ELSE [raised |-> FALSE, text |-> Strip(Join(<<"\n">>, out.val)) \o <<"\n">>]

----------------------------------------------------------------------------
(* Sample strings and Documents                                            *)

sJaneDoe == <<"J","a","n","e"," ","D","o","e">>
sRemote == <<"R","e","m","o","t","e">>
sEmail == <<"j","@","x",".","i","o">>
sLinkedin == <<"i","n","/","j","a","n","e">>
sSummary == <<"S","u","m","m","a","r","y">>
sSkills == <<"S","k","i","l","l","s">>
sSkillsLower == <<"s","k","i","l","l","s">>
sWork == <<"W","o","r","k">>
sWorkPadded == <<" ","W","O","R","K"," ">>
sJobs == <<"J","o","b","s">>
sNotes == <<"N","o","t","e","s">>
sEducation == <<"E","d","u","c","a","t","i","o","n">>
sBuiltX == <<"B","u","i","l","t"," ","X">>
sShippedY == <<"S","h","i","p","p","e","d"," ","Y">>
sBSCS == <<"B","S"," ","C","S">>
sLang == <<"L","a","n","g",":">>
sGo == <<"G","o">>
sGoRust == <<"G","o",","," ","R","u","s","t">>
sEngineer == <<"E","n","g","i","n","e","e","r">>
sEngineerPadded == <<" ","E","n","g","i","n","e","e","r">>
sLead == <<"L","e","a","d">>
sAcme == <<"A","c","m","e">>
sDates == <<"2","0","2","0","-","2","0","2","2">>
sFreeText == <<"F","r","e","e"," ","t","e","x","t">>

NoPayload == [items |-> <<>>, blocks |-> <<>>, jobs |-> <<>>, paragraphs |-> <<>>]

\* a section dict with one payload key
Sec(title, type, key, payload) ==
    [title |-> title, type |-> type, keys |-> {key},
     items |-> IF key = "items" THEN payload ELSE <<>>,
     blocks |-> IF key = "blocks" THEN payload ELSE <<>>,
     jobs |-> IF key = "jobs" THEN payload ELSE <<>>,
     paragraphs |-> IF key = "paragraphs" THEN payload ELSE <<>>]

\* a section dict with no payload key
BareSec(title, type) ==
    [title |-> title, type |-> type, keys |-> {},
     items |-> <<>>, blocks |-> <<>>, jobs |-> <<>>, paragraphs |-> <<>>]

Job(role, company, dates, bullets, tech) ==
    [role |-> role, company |-> company, location |-> sRemote, dates |-> dates,
     bullets |-> bullets, tech_stack |-> tech]

jobBase == Job(sEngineer, sAcme, sDates, <<sBuiltX>>, sGo)
jobTailored == Job(sEngineer, sAcme, sDates, <<sBuiltX, sShippedY>>, sGoRust)
jobPadded == Job(sEngineerPadded, sAcme, sDates, <<sShippedY>>, sGo)
jobLead == Job(sLead, sAcme, <<>>, <<>>, <<>>)

secSummary == Sec(sSummary, tBullets, "items", <<sBuiltX>>)
secSummary2 == Sec(sSummary, tBullets, "items", <<sBuiltX, sShippedY>>)
secEducation == Sec(sEducation, tEducation, "items", <<sBSCS>>)
secSkills == Sec(sSkills, tCoreCompetencies, "blocks", <<[label |-> sLang, text |-> sGo]>>)
secSkillsLower ==
    Sec(sSkillsLower, tCoreCompetencies, "blocks", <<[label |-> sLang, text |-> sGoRust]>>)
secWork == Sec(sWork, tExperience, "jobs", <<jobBase, jobLead>>)
secWorkTailored == Sec(sWorkPadded, tExperience, "jobs", <<jobLead, jobTailored>>)
secWorkPadded == Sec(sWork, tExperience, "jobs", <<jobBase, jobPadded>>)
secJobs == Sec(sJobs, tExperience, "jobs", <<jobTailored>>)
secJobsEmpty == Sec(sJobs, tExperience, "jobs", <<>>)
secNotes == Sec(sNotes, tOther, "paragraphs", <<sFreeText>>)
secBare == BareSec(sSummary, tBullets)
secWorkBare == BareSec(sWork, tExperience)

AllKeys == {"name", "contact", "sections"}

Doc(name, contact, sections) ==
    [keys |-> AllKeys, name |-> name, contact |-> contact, sections |-> sections]

NoContact == [location |-> <<>>, email |-> <<>>, linkedin |-> <<>>]
EmptyDoc == Doc(<<>>, NoContact, <<>>)

\* the sequences over S of length at most n
SeqsUpTo(S, n) == UNION {[1..k -> S] : k \in 0..n}

----------------------------------------------------------------------------
(* tools/pdf_to_yaml.py                                                    *)
(*                                                                         *)
(* Python indexes from 0 and the model from 1: the model's header_end and  *)
(* section indices are the code's.  lines[a:b] is SubSeq(lines, a+1, b).   *)

sSUMMARY == <<"S","U","M","M","A","R","Y">>
sCORE == <<"C","O","R","E"," ","C","O","M","P","E","T","E","N","C","I","E","S">>
sEDUCATION == <<"E","D","U","C","A","T","I","O","N">>
sACHIEVEMENTS == <<"S","E","L","E","C","T","E","D"," ","A","C","H","I","E","V","E","M","E","N","T","S">>
sEXPERIENCE == <<"P","R","O","F","E","S","S","I","O","N","A","L"," ","E","X","P","E","R","I","E","N","C","E">>

SECTION_TITLES == <<sSUMMARY, sCORE, sEDUCATION, sACHIEVEMENTS, sEXPERIENCE>>

\* lines[a:b], 0-based and end-exclusive
Slice(xs, a, b) == SubSeq(xs, a + 1, b)

\* sub in s
Contains(s, sub) ==
    \E i \in 1..(Len(s) - Len(sub) + 1) : SubSeq(s, i, i + Len(sub) - 1) = sub

\* s.split(c) for a character c
SplitOn(s, c) ==
    LET cuts == {0} \cup {i \in 1..Len(s) : s[i] = c} \cup {Len(s) + 1}
        Nth(n) == CHOOSE i \in cuts : Cardinality({j \in cuts : j < i}) = n - 1
    IN  [n \in 1..(Cardinality(cuts) - 1) |-> SubSeq(s, Nth(n) + 1, Nth(n + 1) - 1)]

\* normalize_lines(text): the non-blank lines, trimmed, every run of whitespace one space
normalize_lines(t) ==
    LET ls == SplitLines(t)
        kept == SelectSeq([i \in 1..Len(ls) |-> Strip(ls[i])], LAMBDA ln : Strip(ln) # <<>>)
    IN  [i \in 1..Len(kept) |-> Collapse(kept[i])]

\* find_section_indices(lines): the dict from the known titles that occur to the (0-based)
\* index of their first occurrence
find_section_indices(ls) ==
    LET found == {t \in Range(SECTION_TITLES) : \E i \in 1..Len(ls) : Upper(Strip(ls[i])) = t}
    IN  [t \in found |->
            (CHOOSE i \in 1..Len(ls) :
                /\ Upper(Strip(ls[i])) = t
                /\ \A j \in 1..(i - 1) : Upper(Strip(ls[j])) # t) - 1]

\* slice_sections(lines, section_indices): the dict from title to the lines after it, up
\* to the next title that has an index. A dict keeps the order in which its keys were
\* set: the dict is the list of its (name, lines) entries, in the order of the indices.
slice_sections(ls, idx) ==
    LET Nth(n) == CHOOSE t \in DOMAIN idx :
                      Cardinality({u \in DOMAIN idx : idx[u] < idx[t]}) = n - 1
        ordered == [n \in 1..Cardinality(DOMAIN idx) |-> Nth(n)]
    IN  [j \in 1..Len(ordered) |->
            [name |-> ordered[j],
             lines |-> Slice(ls, idx[ordered[j]] + 1,
                             IF j + 1 <= Len(ordered) THEN idx[ordered[j + 1]] ELSE Len(ls))]]

Glyphs == {"BULLET", "-", "*"}

\* re.sub(r"^[•\-\*]\s*", "", ln).strip()
StripGlyph(ln) ==
    Strip(IF ln # <<>> /\ ln[1] \in Glyphs THEN LStripChars(Tail(ln), Whitespace) ELSE ln)

sHttp == <<"h","t","t","p">>
sHttps == <<"h","t","t","p","s",":","/","/">>
sLinkedinWord == <<"l","i","n","k","e","d","i","n">>

\* a slip of ParseContact: the first field is looked at for the email and the link too
ParseContactAllFields(ln) ==
    LET split == SplitOn(ln, "|")
        parts == [i \in 1..Len(split) |-> Strip(split[i])]
        mails == {i \in 1..Len(parts) : "@" \in Range(parts[i])}
        links == {i \in 1..Len(parts) : Contains(Lower(parts[i]), sLinkedinWord)}
        Last(S) == CHOOSE i \in S : \A j \in S : j <= i
    IN  [location |-> parts[1],
         email |-> IF mails = {} THEN <<>> ELSE parts[Last(mails)],
         linkedin |-> IF links = {} THEN <<>>
                      ELSE IF StartsWith(parts[Last(links)], sHttp) THEN parts[Last(links)]
                      ELSE sHttps \o LStripChars(parts[Last(links)], {"/"})]

\* the contact dict read from a line that holds "|"
ParseContact(ln) ==
    LET split == SplitOn(ln, "|")
        parts == [i \in 1..Len(split) |-> Strip(split[i])]
        rest == Tail(parts)
        mails == {i \in 1..Len(rest) : "@" \in Range(rest[i])}
        links == {i \in 1..Len(rest) : Contains(Lower(rest[i]), sLinkedinWord)}
        Last(S) == CHOOSE i \in S : \A j \in S : j <= i
    IN  [location |-> parts[1],
         email |-> IF mails = {} THEN <<>> ELSE rest[Last(mails)],
         linkedin |-> IF links = {} THEN <<>>
                      ELSE IF StartsWith(rest[Last(links)], sHttp) THEN rest[Last(links)]
                      ELSE sHttps \o LStripChars(rest[Last(links)], {"/"})]

\* the lines after the name in which the contact line is looked for: range(1, min(7, len))
ContactWindow == 7

\* parse_header(lines): [raised, name, contact, header_end]; lines[0] raises IndexError on
\* an empty list
parse_header(ls) ==
    IF ls = <<>>
    THEN [raised |-> TRUE, name |-> <<>>, contact |-> NoContact, header_end |-> 0]
    ELSE LET window == {i \in 1..(ContactWindow - 1) : i < Len(ls) /\ "|" \in Range(ls[i + 1])}
             first == CHOOSE i \in window : \A j \in window : i <= j
         IN  [raised |-> FALSE,
              name |-> Title(Strip(ls[1])),
              contact |-> IF window = {} THEN NoContact ELSE ParseContact(ls[first + 1]),
              header_end |-> IF window = {} THEN 1 ELSE first + 1]

\* every line as it is, the empty ones left out
to_bullets_keeping_glyphs(ls) == NonEmpty([i \in 1..Len(ls) |-> Strip(ls[i])])

\* to_bullets(lines): every line without its leading glyph, the empty ones left out
to_bullets(ls) == NonEmpty([i \in 1..Len(ls) |-> StripGlyph(ls[i])])

\* re.match(r"^(.+?):\s*(.*)$", ln): the first colon that is not the first character
LabelColon(ln) ==
    LET at == {i \in 2..Len(ln) : ln[i] = ":"}
    IN  IF at = {} THEN 0 ELSE CHOOSE i \in at : \A j \in at : i <= j

\* parse_core_competencies(lines), from line i on, with the open block (label, parts)
RECURSIVE CoreBlocks(_, _, _, _)
CoreBlocks(ls, i, label, parts) ==
    LET flush == IF label # <<>>
                 THEN <<[label |-> label, text |-> Strip(Join(<<" ">>, parts))]>>
                 ELSE <<>>
    IN  IF i > Len(ls) THEN flush
        ELSE LET c == LabelColon(ls[i])
                 rest == Strip(SubSeq(ls[i], c + 1, Len(ls[i])))
             IN  IF c # 0
                 THEN flush \o CoreBlocks(ls, i + 1, Strip(SubSeq(ls[i], 1, c - 1)) \o <<":">>,
                                          IF rest # <<>> THEN <<rest>> ELSE <<>>)
                 ELSE CoreBlocks(ls, i + 1, label,
                                 IF label # <<>> THEN Append(parts, Strip(ls[i])) ELSE parts)

parse_core_competencies(ls) == CoreBlocks(ls, 1, <<>>, <<>>)

\* job_title_re = ^(.*?)\s-\s(.*?),\s(.+)$ : [matched, role, company, location]
JobTitleMatch(ln) ==
    LET dashes == {i \in 1..(Len(ln) - 2) :
                      IsSpace(ln[i]) /\ ln[i + 1] = "-" /\ IsSpace(ln[i + 2])}
        Commas(d) == {i \in (d + 3)..(Len(ln) - 2) : ln[i] = "," /\ IsSpace(ln[i + 1])}
        good == {d \in dashes : Commas(d) # {}}
        d == CHOOSE i \in good : \A j \in good : i <= j
        c == CHOOSE i \in Commas(d) : \A j \in Commas(d) : i <= j
    IN  IF good = {}
        THEN [matched |-> FALSE, role |-> <<>>, company |-> <<>>, location |-> <<>>]
        ELSE [matched |-> TRUE,
              role |-> Strip(SubSeq(ln, 1, d - 1)),
              company |-> Strip(SubSeq(ln, d + 3, c - 1)),
              location |-> Strip(SubSeq(ln, c + 2, Len(ln)))]

IsJobStart(ln) == JobTitleMatch(ln).matched

\* date_re = ^\[(.+?)\]$
IsDates(ln) == Len(ln) >= 3 /\ ln[1] = "[" /\ ln[Len(ln)] = "]"
DatesOf(ln) == Strip(SubSeq(ln, 2, Len(ln) - 1))

sTechStack == <<"t","e","c","h"," ","s","t","a","c","k",":">>

\* tech_re = ^Tech stack:\s*(.*)$, ignoring case
IsTech(ln) == StartsWith(Lower(ln), sTechStack)
TechOf(ln) == Strip(SubSeq(ln, Len(sTechStack) + 1, Len(ln)))

\* a line that starts with a bullet glyph
IsBullet(ln) == ln # <<>> /\ ln[1] \in Glyphs

\* the wrapped tech stack: the lines from i on are appended until a job start, a known
\* title or a bullet line: [i, tech_stack]
RECURSIVE TechContinuation(_, _, _)
TechContinuation(ls, i, tech) ==
    IF i > Len(ls) \/ IsJobStart(ls[i]) \/ Upper(ls[i]) \in Range(SECTION_TITLES)
       \/ IsBullet(ls[i])
    THEN [i |-> i, tech_stack |-> Collapse(tech)]
    ELSE TechContinuation(ls, i + 1, tech \o <<" ">> \o Strip(ls[i]))

\* the inner loop of parse_experience: the lines of the open job from i on:
\* [i, bullets, tech_stack]
RECURSIVE GatherJob(_, _, _, _)
GatherJob(ls, i, bullets, tech) ==
    IF i > Len(ls) \/ IsJobStart(ls[i])
    THEN [i |-> i, bullets |-> bullets, tech_stack |-> tech]
    ELSE IF IsTech(ls[i])
    THEN LET t == TechContinuation(ls, i + 1, TechOf(ls[i]))
         IN  GatherJob(ls, t.i, bullets, t.tech_stack)
    ELSE IF IsBullet(ls[i])
    THEN GatherJob(ls, i + 1, Append(bullets, StripGlyph(ls[i])), tech)
    ELSE IF bullets # <<>>
    THEN GatherJob(ls, i + 1,
                   [bullets EXCEPT ![Len(bullets)] = Strip(@ \o <<" ">> \o ls[i])], tech)
    ELSE GatherJob(ls, i + 1, bullets, tech)

\* the outer loop of parse_experience, from line i on
RECURSIVE ParseJobs(_, _)
ParseJobs(ls, i) ==
    IF i > Len(ls) THEN <<>>
    ELSE IF ~IsJobStart(ls[i]) THEN ParseJobs(ls, i + 1)
    ELSE LET m == JobTitleMatch(ls[i])
             dated == i + 1 <= Len(ls) /\ IsDates(ls[i + 1])
             g == GatherJob(ls, IF dated THEN i + 2 ELSE i + 1, <<>>, <<>>)
         IN  << [role |-> m.role, company |-> m.company, location |-> m.location,
                 dates |-> IF dated THEN DatesOf(ls[i + 1]) ELSE <<>>,
                 bullets |-> g.bullets, tech_stack |-> g.tech_stack] >>
             \o ParseJobs(ls, g.i)

\* parse_experience(lines)
parse_experience(ls) == ParseJobs(ls, 1)

\* sections[k] of the dict sections
DictGet(sections, k) ==
    (CHOOSE e \in Range(sections) : e.name = k).lines

\* the section build_yaml appends for a known title
KnownSection(t, ls) ==
    IF t = sSUMMARY THEN Sec(Title(t), tBullets, "items", to_bullets(ls))
    ELSE IF t = sCORE THEN Sec(Title(t), tCoreCompetencies, "blocks", parse_core_competencies(ls))
    ELSE IF t = sEDUCATION THEN Sec(Title(t), tEducation, "items", to_bullets(ls))
    ELSE IF t = sACHIEVEMENTS THEN Sec(Title(t), tBullets, "items", to_bullets(ls))
    ELSE Sec(Title(t), tExperience, "jobs", parse_experience(ls))

\* build_yaml(name, contact, sections): the known titles in the order SUMMARY, CORE
\* COMPETENCIES, EDUCATION, SELECTED ACHIEVEMENTS, PROFESSIONAL EXPERIENCE, then the keys
\* of sections that are not known titles, in the order of the dict
build_yaml(name, contact, sections) ==
    LET keys == {e.name : e \in Range(sections)}
        known == SelectSeq(SECTION_TITLES, LAMBDA t : t \in keys)
        extras == SelectSeq(sections, LAMBDA e : e.name \notin Range(SECTION_TITLES))
    IN  Doc(name, contact,
            [i \in 1..Len(known) |-> KnownSection(known[i], DictGet(sections, known[i]))]
            \o [i \in 1..Len(extras) |->
                   Sec(Title(extras[i].name), tBullets, "items", to_bullets(extras[i].lines))])

sContent == <<"C","o","n","t","e","n","t">>

----------------------------------------------------------------------------
(* The renderer under check: resume_to_text on a Document and on a copy of *)
(* it that differs in the whitespace of one kind of string field.          *)

MaxRenderSections == 1

Fields ==
    {"name", "location", "email", "linkedin", "title", "items", "label", "text",
     "role", "company", "job_location", "dates", "bullets", "tech_stack", "paragraphs"}

\* the Document d with F(field, s) in place of every string s
MapJob(job, F(_, _)) ==
    [role |-> F("role", job.role), company |-> F("company", job.company),
     location |-> F("job_location", job.location), dates |-> F("dates", job.dates),
     bullets |-> [i \in 1..Len(job.bullets) |-> F("bullets", job.bullets[i])],
     tech_stack |-> F("tech_stack", job.tech_stack)]

MapSec(sec, F(_, _)) ==
    [title |-> F("title", sec.title), type |-> sec.type, keys |-> sec.keys,
     items |-> [i \in 1..Len(sec.items) |-> F("items", sec.items[i])],
     blocks |-> [i \in 1..Len(sec.blocks) |->
                    [label |-> F("label", sec.blocks[i].label),
                     text |-> F("text", sec.blocks[i].text)]],
     jobs |-> [i \in 1..Len(sec.jobs) |-> MapJob(sec.jobs[i], F)],
     paragraphs |-> [i \in 1..Len(sec.paragraphs) |-> F("paragraphs", sec.paragraphs[i])]]

MapDoc(d, F(_, _)) ==
    [keys |-> d.keys, name |-> F("name", d.name),
     contact |-> [location |-> F("location", d.contact.location),
                  email |-> F("email", d.contact.email),
                  linkedin |-> F("linkedin", d.contact.linkedin)],
     sections |-> [i \in 1..Len(d.sections) |-> MapSec(d.sections[i], F)]]

PadModes == {"leading", "trailing", "repeated"}

\* s with whitespace added: in front, behind, or every space doubled
Pad(s, mode) ==
    IF s = <<>> THEN s
    ELSE IF mode = "leading" THEN <<" ">> \o s
    ELSE IF mode = "trailing" THEN s \o <<" ">>
    ELSE Concat([i \in 1..Len(s) |-> IF s[i] = " " THEN <<" ", " ">> ELSE <<s[i]>>])

Perturb(d, field, mode) == MapDoc(d, LAMBDA f, s : IF f = field THEN Pad(s, mode) ELSE s)

\* two Documents differ only in whitespace inside their string fields
WhitespaceEquivalent(d1, d2) ==
    MapDoc(d1, LAMBDA f, s : Collapse(s)) = MapDoc(d2, LAMBDA f, s : Collapse(s))

Contacts ==
    {[location |-> l, email |-> e, linkedin |-> k] :
        l \in {<<>>, sRemote}, e \in {<<>>, sEmail}, k \in {<<>>, sLinkedin}}

RenderSections ==
    {secSummary, secEducation, secSkills, secWork, secJobsEmpty, secNotes, secBare, secWorkBare}

RenderDocs ==
    {Doc(sJaneDoe, c, ss) : c \in Contacts, ss \in SeqsUpTo(RenderSections, MaxRenderSections)}

NoResult == [raised |-> FALSE, text |-> <<>>]
NoHeader == [name |-> <<>>, contact |-> NoContact, header_end |-> 0]

NoScore == [keys |-> {}, ats_score |-> 0, confidence |-> 0]
NoPatch == [raised |-> FALSE, empty |-> TRUE]

\* the variables of a component that is not under check
PipelineIdle ==
    /\ jd = <<>>
    /\ response = <<>>
    /\ tailored_type = "none"
    /\ score_data = NoScore
    /\ ats = NoScore
    /\ diff_patch = NoPatch
    /\ error = ""
RenderIdle == resume = EmptyDoc /\ resume2 = EmptyDoc /\ text = NoResult /\ text2 = NoResult
DiffIdle == base = EmptyDoc /\ tailored = EmptyDoc /\ diff_md = NoResult
NoJob == [role |-> <<>>, company |-> <<>>, location |-> <<>>, dates |-> <<>>,
          bullets |-> <<>>, tech_stack |-> <<>>]
ExperienceIdle ==
    /\ exp_lines = <<>>
    /\ cursor = 0
    /\ exp_jobs = <<>>
    /\ open_job = NoJob
    /\ trail = <<>>
ParseIdle ==
    /\ raw = <<>>
    /\ lines = <<>>
    /\ header = NoHeader
    /\ body_lines = <<>>
    /\ section_indices = <<>>
    /\ data = EmptyDoc

InitRender ==
    /\ pc = "render"
    /\ \E d \in RenderDocs, f \in Fields, m \in PadModes :
          /\ resume = d
          /\ resume2 = Perturb(d, f, m)
    /\ text = NoResult
    /\ text2 = NoResult
    /\ DiffIdle
    /\ ParseIdle
    /\ PipelineIdle
    /\ ExperienceIdle

\* text = resume_to_text(resume)
RenderFirst ==
    /\ pc = "render"
    /\ text' = resume_to_text(resume)
    /\ pc' = "render2"
    /\ UNCHANGED <<resume, resume2, text2, diffVars, parseVars, pipelineVars, experienceVars>>

\* text2 = resume_to_text(resume2)
RenderSecond ==
    /\ pc = "render2"
    /\ text2' = resume_to_text(resume2)
    /\ pc' = "rendered"
    /\ UNCHANGED <<resume, resume2, text, diffVars, parseVars, pipelineVars, experienceVars>>

NextRender == RenderFirst \/ RenderSecond

SpecRender == InitRender /\ [][NextRender]_vars

----------------------------------------------------------------------------
(* The diff under check: make_diff_markdown on a pair of Documents.        *)

MaxDiffSections == 3

DiffSections ==
    {secSummary, secSummary2, secSkills, secSkillsLower, secNotes,
     secWork, secWorkTailored, secWorkPadded, secJobs}

\* the pairs of section lists with at most MaxDiffSections sections in all
DiffPairs ==
    UNION {[1..i -> DiffSections] \X [1..j -> DiffSections] :
              <<i, j>> \in {ij \in (0..MaxDiffSections) \X (0..MaxDiffSections) :
                               ij[1] + ij[2] <= MaxDiffSections}}

InitDiff ==
    /\ pc = "diff"
    /\ \E p \in DiffPairs :
          /\ base = Doc(sJaneDoe, NoContact, p[1])
          /\ tailored = Doc(sJaneDoe, NoContact, p[2])
    /\ diff_md = NoResult
    /\ RenderIdle
    /\ ParseIdle
    /\ PipelineIdle
    /\ ExperienceIdle

\* diff_md = make_diff_markdown(base_resume, tailored)
MakeDiffMarkdown ==
    /\ pc = "diff"
    /\ diff_md' = make_diff_markdown(base, tailored)
    /\ pc' = "diffed"
    /\ UNCHANGED <<base, tailored, renderVars, parseVars, pipelineVars, experienceVars>>

NextDiff == MakeDiffMarkdown

SpecDiff == InitDiff /\ [][NextDiff]_vars

\* The diff of a Document with itself.

MaxSelfSections == 2

SelfSections ==
    {secSummary, secBare, secEducation, secSkills, secSkillsLower, secNotes,
     secWork, secWorkPadded, secJobs, secJobsEmpty}

InitDiffSelf ==
    /\ pc = "diff"
    /\ \E ss \in SeqsUpTo(SelfSections, MaxSelfSections) :
          /\ base = Doc(sJaneDoe, NoContact, ss)
          /\ tailored = Doc(sJaneDoe, NoContact, ss)
    /\ diff_md = NoResult
    /\ RenderIdle
    /\ ParseIdle
    /\ PipelineIdle
    /\ ExperienceIdle

SpecDiffSelf == InitDiffSelf /\ [][NextDiff]_vars

----------------------------------------------------------------------------
(* The reverse parser under check: pdf_to_yaml.main on an extracted text.  *)

rName == <<"j","a","n","e"," ","d","o","e">>
rContact == <<"N","Y"," ","|"," ","j","@","x",".","i","o"," ","|"," ","l","i","n","k","e","d","i","n",".","c","o","m","/","j">>
rSummary == <<"S","U","M","M","A","R","Y">>
rBullet == <<" ","-"," "," ","B","u","i","l","t"," "," "," ","X"," ">>
rEducation == <<"E","d","u","c","a","t","i","o","n">>
rExperience == <<"P","R","O","F","E","S","S","I","O","N","A","L"," ","E","X","P","E","R","I","E","N","C","E">>
rJob == <<"D","e","v"," ","-"," ","A","c","m","e",","," ","N","Y">>
rGlyph == <<"-">>
rBlank == <<" "," ">>
rCore == <<"C","O","R","E"," ","C","O","M","P","E","T","E","N","C","I","E","S">>
rLabel == <<"L","a","n","g",":"," ","G","o">>
rDates == <<"[","2","0","2","0","]">>
rProjects == <<"P","R","O","J","E","C","T","S">>

\* the lines an extracted text is made of
RawLines ==
    {rName, rContact, rSummary, rBullet, rEducation, rExperience, rJob, rGlyph, rBlank,
     rCore, rLabel, rDates, rProjects}

\* the most lines of an extracted text
MaxLines == 3

InitParse ==
    /\ pc = "normalize_lines"
    /\ \E ls \in SeqsUpTo(RawLines, MaxLines) : raw = Join(<<"\n">>, ls)
    /\ lines = <<>>
    /\ header = NoHeader
    /\ body_lines = <<>>
    /\ section_indices = <<>>
    /\ data = EmptyDoc
    /\ RenderIdle
    /\ DiffIdle
    /\ PipelineIdle
    /\ ExperienceIdle

\* lines = normalize_lines(raw)
NormalizeLines ==
    /\ pc = "normalize_lines"
    /\ lines' = normalize_lines(raw)
    /\ pc' = "parse_header"
    /\ UNCHANGED <<raw, header, body_lines, section_indices, data, renderVars, diffVars,
                   pipelineVars, experienceVars>>

\* name, contact, header_end = parse_header(lines); the IndexError is not caught
ParseHeader ==
    /\ pc = "parse_header"
    /\ LET h == parse_header(lines)
       IN  IF h.raised
           THEN pc' = "raised" /\ UNCHANGED header
           ELSE /\ pc' = "find_section_indices"
                /\ header' = [name |-> h.name, contact |-> h.contact,
                              header_end |-> h.header_end]
    /\ UNCHANGED <<raw, lines, body_lines, section_indices, data, renderVars, diffVars,
                   pipelineVars, experienceVars>>

\* body_lines = lines[header_end:]; section_indices = find_section_indices(body_lines)
FindSectionIndices ==
    /\ pc = "find_section_indices"
    /\ body_lines' = Slice(lines, header.header_end, Len(lines))
    /\ section_indices' = find_section_indices(body_lines')
    /\ pc' = "emit"
    /\ UNCHANGED <<raw, lines, header, data, renderVars, diffVars,
                   pipelineVars, experienceVars>>

\* if not section_indices: the body as one section titled Content
Fallback ==
    /\ pc = "emit"
    /\ DOMAIN section_indices = {}
    /\ data' = Doc(header.name, header.contact,
                   <<Sec(sContent, tBullets, "items", to_bullets(body_lines))>>)
    /\ pc' = "written"
    /\ UNCHANGED <<raw, lines, header, body_lines, section_indices, renderVars, diffVars,
                   pipelineVars, experienceVars>>

\* else: data = build_yaml(name, contact, slice_sections(body_lines, section_indices))
BuildYaml ==
    /\ pc = "emit"
    /\ DOMAIN section_indices # {}
    /\ data' = build_yaml(header.name, header.contact,
                          slice_sections(body_lines, section_indices))
    /\ pc' = "written"
    /\ UNCHANGED <<raw, lines, header, body_lines, section_indices, renderVars, diffVars,
                   pipelineVars, experienceVars>>

NextParse == NormalizeLines \/ ParseHeader \/ FindSectionIndices \/ Fallback \/ BuildYaml

SpecParse == InitParse /\ [][NextParse]_vars

----------------------------------------------------------------------------
(* app/ollama_client.py, app/score.py, app/diff.py make_unified_diff       *)
(*                                                                         *)
(* A service answer is a sequence of tokens: "w" is a word of commentary,  *)
(* "{" and "}" are braces, "[]" is a JSON value that is not an object, and *)
(* a member token is the members of an object: "name" is the member name   *)
(* alone, "full" is name, contact and sections, "bare" is name, contact    *)
(* and sections whose one section has no payload key. The values of        *)
(* contact and of sections are written with braces, so the text of "full"  *)
(* and of "bare" holds both "{" and "}".                                   *)

MemberTokens == {"name", "full", "bare"}
BracedTokens == {"full", "bare"}
ResponseTokens == {"w", "{", "}", "[]"} \cup MemberTokens

\* the dict an object's member token sets
MemberDoc(m) ==
    IF m = "name" THEN [keys |-> {"name"}, name |-> sJaneDoe, contact |-> NoContact, sections |-> <<>>]
    ELSE IF m = "full" THEN Doc(sJaneDoe, NoContact, <<secWorkTailored>>)
    ELSE Doc(sJaneDoe, NoContact, <<secWorkBare>>)

\* an object's members read from left to right, a later key replacing an earlier one
RECURSIVE ObjectOf(_)
ObjectOf(ms) ==
    IF ms = <<>> THEN [keys |-> {}, name |-> <<>>, contact |-> NoContact, sections |-> <<>>]
    ELSE LET d == ObjectOf(SubSeq(ms, 1, Len(ms) - 1))
             m == MemberDoc(ms[Len(ms)])
         IN  [keys |-> d.keys \cup m.keys,
              name |-> IF "name" \in m.keys THEN m.name ELSE d.name,
              contact |-> IF "contact" \in m.keys THEN m.contact ELSE d.contact,
              sections |-> IF "sections" \in m.keys THEN m.sections ELSE d.sections]

\* json.loads(text): [raised, type, value]; the text is JSON when it is one value, an
\* object ("{", members, "}") or a value that is not an object
json_loads(toks) ==
    IF toks = <<"[]">>
    THEN [raised |-> FALSE, type |-> "list", value |-> EmptyDoc]
    ELSE IF /\ Len(toks) >= 2
            /\ toks[1] = "{"
            /\ toks[Len(toks)] = "}"
            /\ \A i \in 2..(Len(toks) - 1) : toks[i] \in MemberTokens
    THEN [raised |-> FALSE, type |-> "dict", value |-> ObjectOf(SubSeq(toks, 2, Len(toks) - 1))]
    ELSE [raised |-> TRUE, type |-> "none", value |-> EmptyDoc]

\* extract_json(text): the whole text when it is JSON, else the text from the first "{"
\* to the last "}" when that is JSON, else ValueError. Nothing checks what the value is.
\* A candidate that starts or ends inside the members of an object is not JSON.
extract_json(toks) ==
    LET whole == json_loads(toks)
        braces == {i \in 1..Len(toks) : toks[i] \in {"{"} \cup BracedTokens}
        closes == {i \in 1..Len(toks) : toks[i] \in {"}"} \cup BracedTokens}
        start == CHOOSE i \in braces : \A j \in braces : i <= j
        end == CHOOSE i \in closes : \A j \in closes : j <= i
    IN  IF ~whole.raised THEN whole
        ELSE IF braces # {} /\ closes # {} /\ (end > start \/ toks[end] \in BracedTokens)
        THEN json_loads(SubSeq(toks, start, end))
        ELSE whole

\* a slip of Clamp: the upper limit is forgotten
ClampBelowOnly(x) == IF x < 0 THEN 0 ELSE x

\* max(0.0, min(100.0, x))
Clamp(x) == IF x < 0 THEN 0 ELSE IF x > 100 THEN 100 ELSE x

\* the fields of a scoring answer that is a JSON object: keys holds the fields it has
ScoreValues == {0 - 1, 0, 50, 100, 101}
ScoreAnswers ==
    {[keys |-> k, ats_score |-> IF "ats_score" \in k THEN a ELSE 0,
      confidence |-> IF "confidence" \in k THEN c ELSE 0] :
        k \in SUBSET {"ats_score", "confidence"}, a \in ScoreValues, c \in ScoreValues}

\* the end of compute_ats_score_llm: both fields set, each clamped, 0 when absent
NormalizeScore(answer) ==
    [keys |-> {"ats_score", "confidence"},
     ats_score |-> Clamp(IF "ats_score" \in answer.keys THEN answer.ats_score ELSE 0),
     confidence |-> Clamp(IF "confidence" \in answer.keys THEN answer.confidence ELSE 0)]

\* make_unified_diff(base, tailored): [raised, empty]. The hunks difflib writes are not
\* modelled: the patch is empty exactly when the two texts have the same lines.
make_unified_diff(b, a) ==
    LET tb == resume_to_text(b)
        ta == resume_to_text(a)
    IN  IF tb.raised \/ ta.raised THEN [raised |-> TRUE, empty |-> TRUE]
        ELSE [raised |-> FALSE, empty |-> SplitLines(tb.text) = SplitLines(ta.text)]

----------------------------------------------------------------------------
(* The pipeline under check: app/pipeline.py run_pipeline(base_resume, ..) *)

sJobDescription == <<"G","o"," ","d","e","v">>

\* the most tokens of a service answer
MaxResponseTokens == 4

Responses == SeqsUpTo(ResponseTokens, MaxResponseTokens)

BaseResumes ==
    {Doc(sJaneDoe, NoContact, <<secWork>>), Doc(sJaneDoe, NoContact, <<secWorkBare>>)}

InitPipeline ==
    /\ pc = "scrape"
    /\ base \in BaseResumes
    /\ tailored = EmptyDoc
    /\ diff_md = NoResult
    /\ PipelineIdle
    /\ RenderIdle
    /\ ParseIdle
    /\ ExperienceIdle

\* run_pipeline stops with the exception e
Fails(e) ==
    /\ pc' = "failed"
    /\ error' = e

\* jd = scrape_job_description(job_url): the request fails, or no block of the page is
\* long enough, or the largest block is the job description
ScrapeJobDescription ==
    /\ pc = "scrape"
    /\ \E outcome \in {"ok", "RequestException", "RuntimeError"} :
          IF outcome = "ok"
          THEN pc' = "align" /\ jd' = sJobDescription /\ UNCHANGED error
          ELSE Fails(outcome) /\ UNCHANGED jd
    /\ UNCHANGED <<response, tailored_type, score_data, ats, diff_patch, renderVars, diffVars,
                   parseVars, experienceVars>>

\* tailored = align_resume(base_resume, jd): the request fails, or the answer is handed
\* to extract_json and what it returns is the tailored resume
AlignResume ==
    /\ pc = "align"
    /\ \/ /\ Fails("RuntimeError")
          /\ UNCHANGED <<response, tailored, tailored_type>>
       \/ \E r \in Responses :
             /\ response' = r
             /\ LET j == extract_json(r)
                IN  IF j.raised
                    THEN Fails("ValueError") /\ UNCHANGED <<tailored, tailored_type>>
                    ELSE /\ tailored' = j.value
                         /\ tailored_type' = j.type
                         /\ pc' = "score"
                         /\ UNCHANGED error
    /\ UNCHANGED <<jd, score_data, ats, diff_patch, base, diff_md, renderVars, parseVars,
                   experienceVars>>

\* ats = compute_ats_score_llm(jd, tailored): the resume is rendered (a list has no get:
\* AttributeError), the scoring service is asked, and the two fields are clamped
ComputeAtsScore ==
    /\ pc = "score"
    /\ IF tailored_type # "dict" \/ resume_to_text(tailored).raised
       THEN Fails("AttributeError") /\ UNCHANGED <<score_data, ats>>
       ELSE \/ Fails("RuntimeError") /\ UNCHANGED <<score_data, ats>>
            \/ Fails("ValueError") /\ UNCHANGED <<score_data, ats>>
            \/ Fails("AttributeError") /\ UNCHANGED <<score_data, ats>>
            \/ \E answer \in ScoreAnswers :
                  /\ score_data' = answer
                  /\ ats' = NormalizeScore(answer)
                  /\ pc' = "diffs"
                  /\ UNCHANGED error
    /\ UNCHANGED <<jd, response, tailored_type, diff_patch, renderVars, diffVars, parseVars,
                   experienceVars>>

\* diff_md = make_diff_markdown(base_resume, tailored);
\* diff_patch = make_unified_diff(base_resume, tailored)
GenerateDiffs ==
    /\ pc = "diffs"
    /\ LET md == make_diff_markdown(base, tailored)
           patch == make_unified_diff(base, tailored)
       IN  IF md.raised \/ patch.raised
           THEN Fails("KeyError") /\ UNCHANGED <<diff_md, diff_patch>>
           ELSE /\ diff_md' = md
                /\ diff_patch' = patch
                /\ pc' = "pdf"
                /\ UNCHANGED error
    /\ UNCHANGED <<jd, response, tailored_type, score_data, ats, base, tailored, renderVars,
                   parseVars, experienceVars>>

\* generate_pdf(tailored, output_pdf), then the return: app/pdf.py is not part of the
\* sources, so the call either returns or raises
GeneratePdf ==
    /\ pc = "pdf"
    /\ \/ pc' = "done" /\ UNCHANGED error
       \/ Fails("Exception")
    /\ UNCHANGED <<jd, response, tailored_type, score_data, ats, diff_patch, renderVars,
                   diffVars, parseVars, experienceVars>>

NextPipeline ==
    ScrapeJobDescription \/ AlignResume \/ ComputeAtsScore \/ GenerateDiffs \/ GeneratePdf

SpecPipeline == InitPipeline /\ [][NextPipeline]_vars


----------------------------------------------------------------------------
(* Header extraction under check: parse_header on normalized lines.        *)

hPlain == <<"S","e","n","i","o","r"," ","D","e","v">>
hOther == <<"L","A"," ","|"," ","b","@","y",".","i","o">>

\* contact lines: what the first line with "|" of a text is
ContactLines ==
    {<<"N","Y"," ","|"," ","j","@","x",".","i","o"," ","|"," ","l","i","n","k","e","d","i","n",".","c","o","m","/","j">>,
     <<"j","@","x",".","i","o"," ","|"," ","N","Y">>,
     <<"N","Y"," ","|"," ","a","@","b"," ","|"," ","c","@","d">>,
     <<"N","Y"," ","|"," ","h","t","t","p",":","/","/","l","i","n","k","e","d","i","n",".","c","o","m","/","j">>,
     <<"N","Y"," ","|"," ","/","/","L","i","n","k","e","d","I","n",".","c","o","m","/","j">>,
     <<"N","Y"," ","|"," ","H","T","T","P","S",":","/","/","l","i","n","k","e","d","i","n",".","c","o","m","/","j">>,
     <<"N","Y","|","x">>,
     <<"l","i","n","k","e","d","i","n",".","c","o","m","/","j"," ","|"," ","N","Y">>,
     <<"N","Y"," ","|"," ","j","@","l","i","n","k","e","d","i","n",".","c","o","m">>,
     <<"|">>}

\* the most lines after the name line
MaxHeaderLines == 8

\* the lines after the name: shape says where the lines with "|" are; the first of them
\* is the contact line c, the later ones are hOther
HeaderLines(shape, c) ==
    [i \in 1..Len(shape) |->
        IF ~shape[i] THEN hPlain
        ELSE IF \A j \in 1..(i - 1) : ~shape[j] THEN c
        ELSE hOther]

InitHeader ==
    /\ pc = "parse_header"
    /\ \/ lines = <<>>
       \/ \E shape \in SeqsUpTo(BOOLEAN, MaxHeaderLines), c \in ContactLines :
             lines = <<rName>> \o HeaderLines(shape, c)
    /\ raw = Join(<<"\n">>, lines)
    /\ header = NoHeader
    /\ body_lines = <<>>
    /\ section_indices = <<>>
    /\ data = EmptyDoc
    /\ RenderIdle
    /\ DiffIdle
    /\ PipelineIdle
    /\ ExperienceIdle

NextHeader == ParseHeader

SpecHeader == InitHeader /\ [][NextHeader]_vars


----------------------------------------------------------------------------
(* parse_experience under check, one step for each line it consumes        *)

eLead == <<"L","e","a","d"," ","-"," ","I","n","i","t",","," ","L","A">>
eGlyphJob == <<"-"," ","Q","A"," ","-"," ","B","e","t","a",","," ","S","F">>
eTechJob == <<"T","e","c","h"," ","s","t","a","c","k",":"," ","G","o"," ","-"," ","G","i","n",",",
              " ","S","Q","L">>
eTech == <<"T","e","c","h"," ","s","t","a","c","k",":"," ","G","o">>
ePlain == <<"R","e","d","i","s">>
eBullet == <<"-"," ","B","u","i","l","t"," ","X">>
eStar == <<"*">>
eBracketJob == <<"[","X"," ","-"," ","Y",","," ","Z","]">>

\* the lines of an experience span, as normalize_lines leaves them: later job starts, a
\* job start behind a glyph and behind the tech label, dates, tech stack, wrapped text,
\* bullets, a glyph alone, a title that find_section_indices had seen before, and a
\* bracketed line of job start shape
ExperienceLines ==
    {rJob, eLead, eGlyphJob, eTechJob, rDates, eTech, ePlain, eBullet, eStar, rEducation,
     eBracketJob}

\* the most lines of an experience span
MaxExperienceLines == 4

\* lines[k], k counted from 0
LineAt(k) == exp_lines[k + 1]

\* the line consumed, and how
Consumed(k, how) == [line |-> k, as |-> how]

InitExperience ==
    /\ pc = "outer"
    /\ exp_lines \in SeqsUpTo(ExperienceLines, MaxExperienceLines)
    /\ cursor = 0
    /\ exp_jobs = <<>>
    /\ open_job = NoJob
    /\ trail = <<>>
    /\ RenderIdle
    /\ DiffIdle
    /\ ParseIdle
    /\ PipelineIdle

\* a slip of SkipLine: the index is not advanced
SkipLineWithoutAdvance ==
    /\ pc = "outer"
    /\ cursor < Len(exp_lines)
    /\ ~IsJobStart(LineAt(cursor))
    /\ trail' = Append(trail, Consumed(cursor, "skipped"))
    /\ UNCHANGED <<pc, exp_lines, cursor, exp_jobs, open_job, renderVars, diffVars, parseVars,
                   pipelineVars>>

\* outer loop: the line is no job start
SkipLine ==
    /\ pc = "outer"
    /\ cursor < Len(exp_lines)
    /\ ~IsJobStart(LineAt(cursor))
    /\ cursor' = cursor + 1
    /\ trail' = Append(trail, Consumed(cursor, "skipped"))
    /\ UNCHANGED <<pc, exp_lines, exp_jobs, open_job, renderVars, diffVars, parseVars,
                   pipelineVars>>

\* outer loop: a job start opens a job; a bracketed line right after it is its dates
OpenJob ==
    /\ pc = "outer"
    /\ cursor < Len(exp_lines)
    /\ IsJobStart(LineAt(cursor))
    /\ LET m == JobTitleMatch(LineAt(cursor))
           dated == cursor + 1 < Len(exp_lines) /\ IsDates(LineAt(cursor + 1))
       IN  /\ open_job' = [role |-> m.role, company |-> m.company, location |-> m.location,
                           dates |-> IF dated THEN DatesOf(LineAt(cursor + 1)) ELSE <<>>,
                           bullets |-> <<>>, tech_stack |-> <<>>]
           /\ cursor' = IF dated THEN cursor + 2 ELSE cursor + 1
           /\ trail' = trail \o <<Consumed(cursor, "job_start")>>
                       \o (IF dated THEN <<Consumed(cursor + 1, "dates")>> ELSE <<>>)
    /\ pc' = "job"
    /\ UNCHANGED <<exp_lines, exp_jobs, renderVars, diffVars, parseVars, pipelineVars>>

\* per-job loop: the span ends or the next job begins; jobs.append
CloseJob ==
    /\ pc = "job"
    /\ IF cursor < Len(exp_lines) THEN IsJobStart(LineAt(cursor)) ELSE TRUE
    /\ exp_jobs' = Append(exp_jobs, open_job)
    /\ pc' = "outer"
    /\ UNCHANGED <<exp_lines, cursor, open_job, trail, renderVars, diffVars, parseVars,
                   pipelineVars>>

\* per-job loop: a tech stack line
TechLine ==
    /\ pc = "job"
    /\ cursor < Len(exp_lines)
    /\ ~IsJobStart(LineAt(cursor))
    /\ IsTech(LineAt(cursor))
    /\ open_job' = [open_job EXCEPT !.tech_stack = TechOf(LineAt(cursor))]
    /\ cursor' = cursor + 1
    /\ trail' = Append(trail, Consumed(cursor, "tech"))
    /\ pc' = "tech"
    /\ UNCHANGED <<exp_lines, exp_jobs, renderVars, diffVars, parseVars, pipelineVars>>

\* a slip of StopsTech: the glyph test is left out
StopsTechNoGlyphTest(peek) ==
    IsJobStart(peek) \/ Upper(peek) \in Range(SECTION_TITLES)

\* the tech loop stops at the end of the span and before this line
StopsTech(peek) ==
    IsJobStart(peek) \/ Upper(peek) \in Range(SECTION_TITLES) \/ IsBullet(peek)

\* tech loop: the line is wrapped tech stack text
TechContinue ==
    /\ pc = "tech"
    /\ cursor < Len(exp_lines)
    /\ ~StopsTech(LineAt(cursor))
    /\ open_job' = [open_job EXCEPT !.tech_stack = @ \o <<" ">> \o Strip(LineAt(cursor))]
    /\ cursor' = cursor + 1
    /\ trail' = Append(trail, Consumed(cursor, "tech_continuation"))
    /\ UNCHANGED <<pc, exp_lines, exp_jobs, renderVars, diffVars, parseVars, pipelineVars>>

\* tech loop: break, or the span ends; the tech stack is collapsed
TechStop ==
    /\ pc = "tech"
    /\ IF cursor < Len(exp_lines) THEN StopsTech(LineAt(cursor)) ELSE TRUE
    /\ open_job' = [open_job EXCEPT !.tech_stack = Collapse(@)]
    /\ pc' = "job"
    /\ UNCHANGED <<exp_lines, cursor, exp_jobs, trail, renderVars, diffVars, parseVars,
                   pipelineVars>>

\* a slip of BulletLine: the glyph test is not kept behind the job start test
BulletLineBeforeJobStart ==
    /\ pc = "job"
    /\ cursor < Len(exp_lines)
    /\ ~IsTech(LineAt(cursor))
    /\ IsBullet(LineAt(cursor))
    /\ open_job' = [open_job EXCEPT !.bullets = Append(@, StripGlyph(LineAt(cursor)))]
    /\ cursor' = cursor + 1
    /\ trail' = Append(trail, Consumed(cursor, "bullet"))
    /\ UNCHANGED <<pc, exp_lines, exp_jobs, renderVars, diffVars, parseVars, pipelineVars>>

\* per-job loop: a line that starts with a bullet glyph
BulletLine ==
    /\ pc = "job"
    /\ cursor < Len(exp_lines)
    /\ ~IsJobStart(LineAt(cursor))
    /\ ~IsTech(LineAt(cursor))
    /\ IsBullet(LineAt(cursor))
    /\ open_job' = [open_job EXCEPT !.bullets = Append(@, StripGlyph(LineAt(cursor)))]
    /\ cursor' = cursor + 1
    /\ trail' = Append(trail, Consumed(cursor, "bullet"))
    /\ UNCHANGED <<pc, exp_lines, exp_jobs, renderVars, diffVars, parseVars, pipelineVars>>

\* a slip of OtherLine: the line becomes a bullet of its own
OtherLineAsNewBullet ==
    /\ pc = "job"
    /\ cursor < Len(exp_lines)
    /\ ~IsJobStart(LineAt(cursor))
    /\ ~IsTech(LineAt(cursor))
    /\ ~IsBullet(LineAt(cursor))
    /\ open_job' = [open_job EXCEPT !.bullets = Append(@, Strip(LineAt(cursor)))]
    /\ trail' = Append(trail, Consumed(cursor, "bullet_continuation"))
    /\ cursor' = cursor + 1
    /\ UNCHANGED <<pc, exp_lines, exp_jobs, renderVars, diffVars, parseVars, pipelineVars>>

\* per-job loop: any other line wraps the last bullet, or is ignored when there is none
OtherLine ==
    /\ pc = "job"
    /\ cursor < Len(exp_lines)
    /\ ~IsJobStart(LineAt(cursor))
    /\ ~IsTech(LineAt(cursor))
    /\ ~IsBullet(LineAt(cursor))
    /\ IF open_job.bullets # <<>>
       THEN /\ open_job' = [open_job EXCEPT !.bullets[Len(open_job.bullets)] =
                                                Strip(@ \o <<" ">> \o LineAt(cursor))]
            /\ trail' = Append(trail, Consumed(cursor, "bullet_continuation"))
       ELSE /\ UNCHANGED open_job
            /\ trail' = Append(trail, Consumed(cursor, "ignored"))
    /\ cursor' = cursor + 1
    /\ UNCHANGED <<pc, exp_lines, exp_jobs, renderVars, diffVars, parseVars, pipelineVars>>

\* outer loop: the span is used up; return jobs
ReturnJobs ==
    /\ pc = "outer"
    /\ cursor >= Len(exp_lines)
    /\ pc' = "returned"
    /\ UNCHANGED <<renderVars, diffVars, parseVars, pipelineVars, experienceVars>>

NextExperience ==
    \/ SkipLine
    \/ OpenJob
    \/ CloseJob
    \/ TechLine
    \/ TechContinue
    \/ TechStop
    \/ BulletLine
    \/ OtherLine
    \/ ReturnJobs

SpecExperience == InitExperience /\ [][NextExperience]_vars

----------------------------------------------------------------------------
(* Properties of resume_to_text                                            *)

\* the second line of the rendered text: the contact line (the name of every Document
\* rendered here is not empty)
RenderedContactLine ==
    LET rendered == SplitLines(text.text)
    IN  IF Len(rendered) >= 2 THEN rendered[2] ELSE <<>>

\* C5: two Documents that differ only in whitespace inside their string fields render to
\* the same text. The code keeps leading whitespace of an item, bullet or paragraph and
\* repeated whitespace inside any field, so this fails.
C5_WhitespaceOnlyDifferenceInvisible ==
    (pc = "rendered" /\ WhitespaceEquivalent(resume, resume2)) => text.text = text2.text

\* C6: the contact line is the non-empty fields among location, email, linkedin, in that
\* order, joined by " | ". The code joins all three and trims the ends only, so an empty
\* middle field leaves a doubled separator.
C6_ContactLineOmitsEmptyFields ==
    pc # "render" =>
        RenderedContactLine =
            Join(<<" ", "|", " ">>,
                 NonEmpty(<<Strip(resume.contact.location), Strip(resume.contact.email),
                            Strip(resume.contact.linkedin)>>))

----------------------------------------------------------------------------
(* Properties of the reverse parser                                        *)

\* the lines of the text that match a known title, ignoring case
KnownTitleLines(ls) == {i \in 1..Len(ls) : Upper(Strip(ls[i])) \in Range(SECTION_TITLES)}

\* the positions of ls whose line still holds something without its glyph
Kept(ls) == {i \in 1..Len(ls) : StripGlyph(ls[i]) # <<>>}

\* items is the lines of ls without their glyphs, in order, the empty ones left out
ItemsOf(items, ls) ==
    /\ Len(items) = Cardinality(Kept(ls))
    /\ \A i \in Kept(ls) :
          items[Cardinality({j \in Kept(ls) : j <= i})] = StripGlyph(ls[i])

\* the Document is one section titled Content, of type bullets
OneContentSection ==
    /\ Len(data.sections) = 1
    /\ data.sections[1].title = sContent
    /\ data.sections[1].type = tBullets
    /\ data.sections[1].keys = {"items"}

\* C1: the reverse parser never raises, whatever the line sequence, the empty one
\* included. parse_header reads lines[0] before it looks at the length, so a text without
\* a non-blank line ends in an IndexError.
C1_ParserNeverRaises == pc # "raised"

\* C4 as stated: when no line of the text is a known title, the Document is one section
\* titled Content, of type bullets, whose items are all the non-empty lines of the text
\* without their glyphs, in order. The code takes the items from the lines after the
\* header only.
C4_FallbackHoldsEveryLine ==
    (pc = "written" /\ KnownTitleLines(lines) = {}) =>
        /\ OneContentSection
        /\ data.sections[1].items = [i \in 1..Len(lines) |-> StripGlyph(lines[i])]

\* C4: when no line after the header is a known title, the Document is one section titled
\* Content, of type bullets, whose items are the lines after the header (the name line,
\* and the lines up to the contact line when there is one, are not among them) without
\* their glyphs, in order, the lines that hold nothing but a glyph left out.
C4_FallbackHoldsBodyLines ==
    LET end == header.header_end
        body == [i \in 1..(Len(lines) - end) |-> lines[end + i]]
    IN  (pc = "written" /\ KnownTitleLines(body) = {}) =>
            /\ end >= 1
            /\ (end > 1 => "|" \in Range(lines[end]))
            /\ \A i \in 2..(end - 1) : "|" \notin Range(lines[i])
            /\ (end = 1 => \A i \in 2..Len(lines) : i <= ContactWindow => "|" \notin Range(lines[i]))
            /\ OneContentSection
            /\ ItemsOf(data.sections[1].items, body)

\* C4: a text with a name line, a contact line and a bullet line, no title
C4_Witness ==
    /\ pc = "written"
    /\ DOMAIN section_indices = {}
    /\ header.header_end = 2
    /\ Len(body_lines) = 1
    /\ body_lines[1][1] \in Glyphs
    /\ Len(data.sections[1].items) = 1

\* C11: the sections of the Document come in the order in which their title lines occur
\* in the text. build_yaml appends the known titles in the order of SECTION_TITLES,
\* whatever the order of the lines.
C11_SectionsInInputOrder ==
    (pc = "written" /\ DOMAIN section_indices # {}) =>
        \A i \in 1..Len(data.sections) : \A j \in 1..Len(data.sections) :
            i < j => section_indices[Upper(data.sections[i].title)]
                       < section_indices[Upper(data.sections[j].title)]


\* the (0-based) index of the first known title of the body
FirstAnchor == CHOOSE n \in {section_indices[t] : t \in DOMAIN section_indices} :
                   \A t \in DOMAIN section_indices : n <= section_indices[t]

\* the items of the sections of type bullets of the Document
BulletItems ==
    UNION {Range(data.sections[i].items) :
              i \in {j \in 1..Len(data.sections) : data.sections[j].type = tBullets}}

\* C12: when the body has a known title, what is outside the known vocabulary is kept:
\* every line between the header and the first known title is an item of a section of
\* type bullets, and a title that is not known (PROJECTS) gives a section of type bullets
\* titled in title case. The code slices from the first known title on, and a line that
\* is not a known title is never a key of the sliced sections.
C12_NothingOutsideVocabularyDropped ==
    (pc = "written" /\ DOMAIN section_indices # {}) =>
        /\ \A i \in 1..FirstAnchor :
              StripGlyph(body_lines[i]) # <<>> => StripGlyph(body_lines[i]) \in BulletItems
        /\ rProjects \in Range(body_lines) =>
              \E i \in 1..Len(data.sections) :
                  /\ data.sections[i].title = Title(rProjects)
                  /\ data.sections[i].type = tBullets


\* the positions (from 1) of the lines with "|" among the six lines after the name line
PipeLines == {i \in 2..Len(lines) : i <= ContactWindow /\ "|" \in Range(lines[i])}

\* the contact line: the first of them
ContactAt == CHOOSE i \in PipeLines : \A j \in PipeLines : i <= j

\* the fields of the contact line, trimmed
ContactFields == LET split == SplitOn(lines[ContactAt], "|")
                 IN  [i \in 1..Len(split) |-> Strip(split[i])]

\* the field f as a link: as it is, or after "https://", its leading slashes left out or not
AsLink(f) == {f, sHttps \o f, sHttps \o LStripChars(f, {"/"})}

HasLinkedin(f) == Contains(Lower(f), sLinkedinWord)

\* parse_header has returned
HeaderRead == pc = "find_section_indices"

\* what C13 and its amended form share: the name, the contact line, the end of the
\* header, the location, and the header without a contact line
HeaderRegion ==
    /\ header.name = Title(lines[1])
    /\ PipeLines = {} => (header.header_end = 1 /\ header.contact = NoContact)
    /\ PipeLines # {} => /\ header.header_end = ContactAt
                         /\ header.contact.location = ContactFields[1]

----------------------------------------------------------------------------
(* Properties of the pipeline                                              *)

\* the payload key the type of a section requires
RequiredKeys(sec) ==
    IF sec.type \in {tBullets, tEducation} THEN {"items"}
    ELSE IF sec.type = tCoreCompetencies THEN {"blocks"}
    ELSE IF sec.type = tExperience THEN {"jobs"}
    ELSE {}

\* a section of d has no key for the payload of its type
LacksPayload(d) ==
    \E i \in 1..Len(DocSections(d)) :
        ~(RequiredKeys(DocSections(d)[i]) \subseteq DocSections(d)[i].keys)

\* the stages of run_pipeline that follow the return of a call
AfterAlign == {"score", "diffs", "pdf", "done"}
AfterScore == {"diffs", "pdf", "done"}
AfterDiffs == {"pdf", "done"}

\* C7: resume_to_text and make_diff_markdown fail on a Document with a section that has
\* no payload key: the render of such a tailored resume (in compute_ats_score_llm) does
\* not return, and the diff of a pair with such a Document does not return. The code reads
\* the payload with get(key, []) or [], so both return.
C7_MissingPayloadFails ==
    /\ (pc \in AfterScore /\ tailored_type = "dict") => ~LacksPayload(tailored)
    /\ pc \in AfterDiffs => ~(LacksPayload(base) \/ LacksPayload(tailored))

\* C8: align_resume returns only a JSON object that holds name, contact and sections:
\* once the call has returned, tailored is such an object. extract_json returns whatever
\* json.loads returns and nobody looks at it.
C8_AlignReturnsOnlyDocuments ==
    pc \in AfterAlign => (tailored_type = "dict" /\ AllKeys \subseteq tailored.keys)


\* C14: both fields of the result of compute_ats_score_llm are in [0, 100]: a value of
\* the service below 0 gives 0, one above 100 gives 100, one in between is kept, and a
\* field the service left out gives 0.
C14_ScoreFieldsClamped ==
    pc \in AfterScore =>
        \A f \in {"ats_score", "confidence"} :
            /\ f \in ats.keys
            /\ ats[f] >= 0 /\ ats[f] <= 100
            /\ f \notin score_data.keys => ats[f] = 0
            /\ (f \in score_data.keys /\ score_data[f] < 0) => ats[f] = 0
            /\ (f \in score_data.keys /\ score_data[f] > 100) => ats[f] = 100
            /\ (f \in score_data.keys /\ score_data[f] >= 0 /\ score_data[f] <= 100) =>
                  ats[f] = score_data[f]

\* C14: the service gave a score above 100 and no confidence, and the pipeline went on
C14_Witness ==
    /\ pc \in AfterScore
    /\ "ats_score" \in score_data.keys
    /\ score_data.ats_score > 100
    /\ "confidence" \notin score_data.keys
    /\ ats.ats_score = 100
    /\ ats.confidence = 0

----------------------------------------------------------------------------
(* Reading the diff report back                                            *)

ReportLines == SplitLines(diff_md.text)

\* the lines that are section headings: "## <title>", after the "## High-level" block
SectionHeadings(r) == {i \in 4..Len(r) : StartsWith(r[i], H2)}

HeadingTitle(r, h) == SubSeq(r[h], Len(H2) + 1, Len(r[h]))

\* the last line under the heading at h
BodyEnd(r, h) ==
    LET later == {i \in SectionHeadings(r) : i > h}
    IN  IF later = {} THEN Len(r)
        ELSE (CHOOSE i \in later : \A j \in later : i <= j) - 1

\* the lines under the heading at h, blank lines left out
Body(r, h) == NonEmpty(SubSeq(r, h + 1, BodyEnd(r, h)))

\* the lines of the job block whose header is line j: up to the next blank line
BlockLines(r, j) ==
    LET blanks == {i \in (j + 1)..Len(r) : r[i] = <<>>}
        end == IF blanks = {} THEN Len(r)
               ELSE (CHOOSE i \in blanks : \A b \in blanks : i <= b) - 1
    IN  SubSeq(r, j + 1, end)

Bold == <<"*", "*">>

\* the lines a block lists after the marker line, up to the next marker
ListedAfter(blk, marker) ==
    LET at == {i \in 1..Len(blk) : blk[i] = marker}
        m == CHOOSE i \in at : TRUE
        next == {i \in (m + 1)..Len(blk) : StartsWith(blk[i], Bold)}
        end == IF next = {} THEN Len(blk)
               ELSE (CHOOSE i \in next : \A n \in next : i <= n) - 1
    IN  IF at = {} THEN <<>> ELSE SubSeq(blk, m + 1, end)

\* the normalized title of a section: trimmed and lowercased
NormTitle(sec) == Lower(Strip(sec.title))

NormTitles(d) == {NormTitle(d.sections[i]) : i \in 1..Len(d.sections)}

\* the last section of d whose normalized title is n
LastSection(d, n) ==
    d.sections[CHOOSE i \in 1..Len(d.sections) :
                  /\ NormTitle(d.sections[i]) = n
                  /\ \A j \in (i + 1)..Len(d.sections) : NormTitle(d.sections[j]) # n]

\* the jobs of the experience sections of d, in document order
JobsOf(d) ==
    Concat([i \in 1..Len(d.sections) |->
               IF d.sections[i].type = tExperience THEN d.sections[i].jobs ELSE <<>>])

\* the identity of a job: (role, company, dates) after trimming
KeyOf(job) == <<Strip(job.role), Strip(job.company), Strip(job.dates)>>

KeysOf(d) == {KeyOf(JobsOf(d)[i]) : i \in 1..Len(JobsOf(d))}

\* the last job of d whose key is k
LastJob(d, k) ==
    JobsOf(d)[CHOOSE i \in 1..Len(JobsOf(d)) :
                 /\ KeyOf(JobsOf(d)[i]) = k
                 /\ \A j \in (i + 1)..Len(JobsOf(d)) : KeyOf(JobsOf(d)[j]) # k]

\* the headings of the sections present in both Documents whose tailored type is experience
ExperienceHeadings(r) ==
    {h \in SectionHeadings(r) :
        /\ Lower(HeadingTitle(r, h)) \in NormTitles(base) \cap NormTitles(tailored)
        /\ LastSection(tailored, Lower(HeadingTitle(r, h))).type = tExperience}

\* xs with the elements at i and j exchanged
Swap(xs, i, j) == [xs EXCEPT ![i] = xs[j], ![j] = xs[i]]

\* the Documents d with two sections exchanged, or two jobs of one section exchanged
Reordered(d) ==
    {[d EXCEPT !.sections = Swap(@, ij[1], ij[2])] :
        ij \in {p \in (1..Len(d.sections)) \X (1..Len(d.sections)) : p[1] < p[2]}}
    \cup
    UNION {{[d EXCEPT !.sections[n].jobs = Swap(@, ij[1], ij[2])] :
               ij \in {p \in (1..Len(d.sections[n].jobs)) \X (1..Len(d.sections[n].jobs)) :
                          p[1] < p[2]}} :
           n \in 1..Len(d.sections)}

\* no two sections of d share a normalized title, no two jobs of d share a key
DistinctTitles(d) == Cardinality(NormTitles(d)) = Len(d.sections)
DistinctJobKeys(d) == Cardinality(KeysOf(d)) = Len(JobsOf(d))

----------------------------------------------------------------------------
(* Properties of make_diff_markdown                                        *)

\* C2, as stated: the diff of a Document with itself holds no added and no removed section,
\* and reports "No change" under the heading of every section. Fails: a section of a type
\* other than bullets, education, core_competencies and experience gets the placeholder
\* line, and an experience heading of a Document without jobs has nothing under it.
C2_SelfDiffNoChangeEverySection ==
    LET r == ReportLines
    IN
        (pc = "diffed" /\ base = tailored) =>
            /\ AddedSection \notin Range(r)
            /\ RemovedSection \notin Range(r)
            /\ Cardinality(SectionHeadings(r)) = Cardinality(NormTitles(base))
            /\ \A h \in SectionHeadings(r) : NoChange \in Range(Body(r, h))

\* C2, amended: the diff of a Document with itself holds no added and no removed section;
\* under a heading of type bullets, education or core_competencies it reports only "No
\* change"; under an experience heading one block per job key of the Document, each "No
\* change" (nothing when it has no jobs); under a heading of another type the placeholder.
C2_SelfDiffNoChange ==
    LET r == ReportLines
    IN
        (pc = "diffed" /\ base = tailored) =>
            /\ ~diff_md.raised
            /\ AddedSection \notin Range(r)
            /\ RemovedSection \notin Range(r)
            /\ {Lower(HeadingTitle(r, h)) : h \in SectionHeadings(r)} = NormTitles(base)
            /\ Cardinality(SectionHeadings(r)) = Cardinality(NormTitles(base))
            /\ \A h \in SectionHeadings(r) :
                  LET type == LastSection(base, Lower(HeadingTitle(r, h))).type
                  IN  IF type \in {tBullets, tEducation, tCoreCompetencies}
                      THEN Body(r, h) = <<NoChange>>
                      ELSE IF type = tExperience
                      THEN /\ Len(Body(r, h)) = 2 * Cardinality(KeysOf(base))
                           /\ \A n \in 1..Len(Body(r, h)) :
                                 IF n % 2 = 1
                                 THEN \E k \in KeysOf(base) : Body(r, h)[n] = JobHeader(k)
                                 ELSE Body(r, h)[n] = NoChange
                      ELSE Body(r, h) = <<NotDiffed>>

\* C2 witness: a Document of two sections, one of bullets and one of experience with jobs,
\* diffed with itself
C2_Witness ==
    LET r == ReportLines
    IN
        /\ pc = "diffed"
        /\ base = tailored
        /\ Cardinality(SectionHeadings(r)) = 2
        /\ \E h \in SectionHeadings(r) : Body(r, h) = <<NoChange>>
        /\ \E h \in ExperienceHeadings(r) : Len(Body(r, h)) >= 2

\* C3, as stated: when a job of base and a job of tailored have the same (role, company,
\* dates) after trimming, the report holds exactly one block for that key, and it is
\* neither an added nor a removed job block. Fails: the block appears once under every
\* heading of a section present in both Documents whose tailored type is experience, so
\* not at all when the two experience sections have different titles, and twice when two
\* such headings exist.
C3_OneBlockInReport ==
    LET r == ReportLines
    IN
        pc = "diffed" =>
            \A k \in KeysOf(base) \cap KeysOf(tailored) :
                LET at == {j \in 1..Len(r) : r[j] = JobHeader(k)}
                IN  /\ Cardinality(at) = 1
                    /\ \A j \in at : BlockLines(r, j)[1] \notin {AddedJob, RemovedJob}

\* C3, amended: under every heading of a section present in both Documents whose tailored
\* type is experience there is exactly one block for the key, never an added or removed job
\* block; it compares the last job of that key in each Document: it lists as added exactly
\* the tailored bullets absent from base, as removed exactly the base bullets absent from
\* tailored, and a tech stack line exactly when the trimmed tech stacks differ.
C3_OneBlockPerExperienceHeading ==
    LET r == ReportLines
    IN
        pc = "diffed" =>
            \A k \in KeysOf(base) \cap KeysOf(tailored) : \A h \in ExperienceHeadings(r) :
                LET at == {j \in (h + 1)..BodyEnd(r, h) : r[j] = JobHeader(k)}
                    bj == LastJob(base, k)
                    aj == LastJob(tailored, k)
                    added == SelectSeq(aj.bullets, LAMBDA x : x \notin Range(bj.bullets))
                    removed == SelectSeq(bj.bullets, LAMBDA x : x \notin Range(aj.bullets))
                IN  /\ Cardinality(at) = 1
                    /\ \A j \in at :
                          LET blk == BlockLines(r, j)
                          IN  /\ AddedJob \notin Range(blk)
                              /\ RemovedJob \notin Range(blk)
                              /\ ListedAfter(blk, AddedBullets)
                                    = [i \in 1..Len(added) |-> Dash \o added[i]]
                              /\ ListedAfter(blk, RemovedBullets)
                                    = [i \in 1..Len(removed) |-> Dash \o removed[i]]
                              /\ (\E i \in 1..Len(blk) : StartsWith(blk[i], TechStackLine))
                                    <=> (Strip(bj.tech_stack) # Strip(aj.tech_stack))
                              /\ (NoChange \in Range(blk))
                                    <=> (/\ added = <<>>
                                         /\ removed = <<>>
                                         /\ Strip(bj.tech_stack) = Strip(aj.tech_stack))

\* C3 witness: the scenario of the spec, diffed: the job Engineer, Acme, 2020-2022 with
\* bullets [Built X] and tech stack Go in base, [Built X, Shipped Y] and Go, Rust in
\* tailored, in sections of the same title.
C3_Witness ==
    LET r == ReportLines
    IN
        /\ pc = "diffed"
        /\ ExperienceHeadings(r) # {}
        /\ KeyOf(jobBase) \in KeysOf(base) \cap KeysOf(tailored)
        /\ LastJob(base, KeyOf(jobBase)) = jobBase
        /\ LastJob(tailored, KeyOf(jobBase)) = jobTailored

\* the headings and the job blocks of the report are in ascending order
ReportIsSorted ==
    LET r == ReportLines
    IN
        /\ \A h1, h2 \in SectionHeadings(r) :
              h1 < h2 => StrLess(Lower(HeadingTitle(r, h1)), Lower(HeadingTitle(r, h2)))
        /\ {Lower(HeadingTitle(r, h)) : h \in SectionHeadings(r)}
              = NormTitles(base) \cup NormTitles(tailored)
        /\ \A h \in ExperienceHeadings(r) :
              LET hdrs == SelectSeq(Body(r, h), LAMBDA ln : StartsWith(ln, H3))
                  keys == KeysOf(base) \cup KeysOf(tailored)
              IN  /\ Len(hdrs) = Cardinality(keys)
                  /\ \A n, m \in 1..Len(hdrs) :
                        n < m => \E k1, k2 \in keys :
                                    /\ hdrs[n] = JobHeader(k1)
                                    /\ hdrs[m] = JobHeader(k2)
                                    /\ TupleLess(k1, k2)

\* the report is the same for every reordering of the sections or jobs of either Document
ReportIgnoresOrder ==
    /\ \A b \in Reordered(base) : make_diff_markdown(b, tailored) = diff_md
    /\ \A a \in Reordered(tailored) : make_diff_markdown(base, a) = diff_md

\* C9, as stated: headings ascending by normalized title, each once; job blocks ascending by
\* key; and the report does not depend on the order of sections or jobs inside either
\* Document. Fails: of two sections with the same normalized title, or two jobs with the
\* same key, the later one in the Document is the one compared.
C9_SortedAndOrderIndependent ==
    pc = "diffed" => (ReportIsSorted /\ ReportIgnoresOrder)

\* C9, amended: as stated, with the independence of order limited to Documents in which no
\* two sections share a normalized title and no two jobs share a key.
C9_SortedAndOrderIndependentWhenDistinct ==
    pc = "diffed" =>
        /\ ReportIsSorted
        /\ (DistinctTitles(base) /\ DistinctTitles(tailored)
            /\ DistinctJobKeys(base) /\ DistinctJobKeys(tailored)) => ReportIgnoresOrder

\* C9 witness: a report with two headings and two job blocks, of Documents with distinct
\* titles and keys of which one has its sections in descending order of title.
C9_Witness ==
    LET r == ReportLines
    IN
        /\ pc = "diffed"
        /\ DistinctTitles(base) /\ DistinctTitles(tailored)
        /\ DistinctJobKeys(base) /\ DistinctJobKeys(tailored)
        /\ Cardinality(SectionHeadings(r)) >= 2
        /\ ExperienceHeadings(r) # {}
        /\ Cardinality(KeysOf(base) \cup KeysOf(tailored)) >= 2
        /\ Len(tailored.sections) >= 2
        /\ StrLess(NormTitle(tailored.sections[2]), NormTitle(tailored.sections[1]))

\* C10: a base section and a tailored section whose titles are equal after trimming and
\* lowercasing are one section of the report: one heading, not reported added or removed,
\* and the heading is the (last such) tailored section's title, trimmed, in its own casing.
C10_TitlesMatchIgnoringCase ==
    LET r == ReportLines
    IN
        pc = "diffed" =>
            \A bi \in 1..Len(base.sections), ti \in 1..Len(tailored.sections) :
                NormTitle(base.sections[bi]) = NormTitle(tailored.sections[ti]) =>
                    LET n == NormTitle(tailored.sections[ti])
                        hs == {h \in SectionHeadings(r) : Lower(HeadingTitle(r, h)) = n}
                    IN  /\ Cardinality(hs) = 1
                        /\ \A h \in hs :
                              /\ AddedSection \notin Range(Body(r, h))
                              /\ RemovedSection \notin Range(Body(r, h))
                              /\ HeadingTitle(r, h) = Strip(LastSection(tailored, n).title)

\* C10 witness: a diffed pair whose matched titles differ in case
C10_Witness ==
    /\ pc = "diffed"
    /\ \E bi \in 1..Len(base.sections), ti \in 1..Len(tailored.sections) :
          /\ NormTitle(base.sections[bi]) = NormTitle(tailored.sections[ti])
          /\ Strip(base.sections[bi].title) # Strip(tailored.sections[ti].title)
          /\ LastSection(tailored, NormTitle(tailored.sections[ti])) = tailored.sections[ti]


\* the keys of the jobs of one section, none when its type is not experience
SectionKeys(sec) ==
    IF sec.type = tExperience THEN {KeyOf(sec.jobs[i]) : i \in 1..Len(sec.jobs)} ELSE {}

\* C15: under the heading of a title present in both Documents whose tailored type is
\* experience, every job block is the block of a job of that section of base or of that
\* section of tailored. The code indexes the jobs of the whole Document, so a job of
\* another experience section is reported under the heading too.
C15_BlocksFromOwnSection ==
    LET r == ReportLines
    IN
        pc = "diffed" =>
            \A h \in ExperienceHeadings(r) :
                LET own == SectionKeys(LastSection(base, Lower(HeadingTitle(r, h))))
                           \cup SectionKeys(LastSection(tailored, Lower(HeadingTitle(r, h))))
                IN  \A k \in KeysOf(base) \cup KeysOf(tailored) :
                        JobHeader(k) \in Range(Body(r, h)) => k \in own


----------------------------------------------------------------------------
(* Properties of parse_experience                                          *)

\* the lines consumed as how, and the ways line k was consumed
TrailLines(how) == {trail[n].line : n \in {m \in 1..Len(trail) : trail[m].as = how}}
HowOf(k) == {trail[n].as : n \in {m \in 1..Len(trail) : trail[m].line = k}}

\* the number of the job that line k lies in, 0 before the first job start
JobNo(k) == Cardinality({s \in TrailLines("job_start") : s <= k})

\* the last line of the job that line k lies in
JobEnd(k) ==
    LET later == {s \in TrailLines("job_start") : s > k}
    IN  IF later = {} THEN Len(exp_lines) - 1
        ELSE (CHOOSE s \in later : \A r \in later : s <= r) - 1

\* the line classes of the specification
HasJobStartShape(ln) == JobTitleMatch(ln).matched
IsKnownTitle(ln) == Upper(ln) \in Range(SECTION_TITLES)
HasGlyph(ln) == ln # <<>> /\ ln[1] \in {"BULLET", "-", "*"}
HasTechLabel(ln) == StartsWith(Lower(ln), sTechStack)

\* the first line after line t that is a job start, a known title or a glyph line; the
\* number of lines when there is none
FirstStopAfter(t) ==
    LET stops == {k \in (t + 1)..(Len(exp_lines) - 1) :
                     HasJobStartShape(LineAt(k)) \/ IsKnownTitle(LineAt(k))
                     \/ HasGlyph(LineAt(k))}
    IN  IF stops = {} THEN Len(exp_lines)
        ELSE CHOOSE k \in stops : \A r \in stops : k <= r

\* the lines between the tech stack line t and its stop
TechRun(t) == (t + 1)..(FirstStopAfter(t) - 1)

\* the text after the label of line t and the lines from..to, space-joined
RECURSIVE RunText(_, _, _)
RunText(t, from, to) ==
    IF from > to THEN TechOf(LineAt(t))
    ELSE RunText(t, from, to - 1) \o <<" ">> \o Strip(LineAt(to))

\* the last tech stack line of job j, when it has one
TechLinesOf(j) == {t \in TrailLines("tech") : JobNo(t) = j}
LastTechLine(j) == CHOOSE t \in TechLinesOf(j) : \A r \in TechLinesOf(j) : r <= t

\* the lines of job j consumed as bullets, and the place of line k among them
BulletLinesOf(j) == {k \in TrailLines("bullet") : JobNo(k) = j}
BulletPlace(k) == Cardinality({b \in BulletLinesOf(JobNo(k)) : b <= k})

\* line k, a glyph line, is recorded as a bullet of its job
RecordedAsBullet(k) ==
    /\ HowOf(k) = {"bullet"}
    /\ JobNo(k) \in 1..Len(exp_jobs)
    /\ BulletPlace(k) <= Len(exp_jobs[JobNo(k)].bullets)
    /\ StartsWith(exp_jobs[JobNo(k)].bullets[BulletPlace(k)], StripGlyph(LineAt(k)))

\* the run of tech stack line t: its lines are continuation, its stop is not, and a
\* glyph line that stops it is a bullet of the same job
TechRunOf(t) ==
    LET s == FirstStopAfter(t)
    IN  /\ \A k \in TechRun(t) : HowOf(k) = {"tech_continuation"}
        /\ s < Len(exp_lines) => HowOf(s) \cap {"tech", "tech_continuation"} = {}
        /\ (s < Len(exp_lines) /\ HasGlyph(LineAt(s)) /\ ~HasJobStartShape(LineAt(s)))
               => JobNo(s) = JobNo(t) /\ RecordedAsBullet(s)

\* the tech stack of job j is the text of its last tech stack line and of that line's run
TechStackOf(j) ==
    TechLinesOf(j) # {} =>
        exp_jobs[j].tech_stack =
            Collapse(RunText(LastTechLine(j), LastTechLine(j) + 1,
                             FirstStopAfter(LastTechLine(j)) - 1))

\* C16 as stated: after a tech stack line the following lines are appended to the job's
\* tech stack exactly until the first job start, known title or glyph line; that line
\* and every later line of the job is never added to the tech stack, and a glyph line
\* that follows the tech stack is a bullet of the same job
C16_NothingAfterTheStopJoinsTechStack ==
    pc = "returned" =>
        /\ \A t \in TrailLines("tech") :
              /\ TechRunOf(t)
              /\ \A k \in FirstStopAfter(t)..JobEnd(t) :
                    HowOf(k) \cap {"tech", "tech_continuation"} = {}
        /\ \A j \in 1..Len(exp_jobs) : TechStackOf(j)

\* C16 as the code has it: the same, but a later tech stack line of the same job starts
\* the tech stack afresh, and the lines of its run are appended to it: every line added
\* as continuation lies in the run of the nearest tech stack line before it
C16_TechStackRunsToTheFirstStop ==
    pc = "returned" =>
        /\ \A t \in TrailLines("tech") : TechRunOf(t)
        /\ \A k \in TrailLines("tech_continuation") :
              \E t \in TrailLines("tech") :
                  /\ k \in TechRun(t)
                  /\ JobNo(t) = JobNo(k)
        /\ \A j \in 1..Len(exp_jobs) : TechStackOf(j)

\* a tech stack line with a wrapped line after it, stopped by a glyph line that became a
\* bullet of the job
C16_Witness ==
    /\ pc = "returned"
    /\ \E t \in TrailLines("tech") :
          /\ TechRun(t) # {}
          /\ FirstStopAfter(t) < Len(exp_lines)
          /\ HasGlyph(LineAt(FirstStopAfter(t)))
          /\ RecordedAsBullet(FirstStopAfter(t))
          /\ exp_jobs[JobNo(t)].tech_stack # TechOf(LineAt(t))


\* the lines inside job j: after its job start line and its dates line
InsideJob(j) ==
    {k \in 0..(Len(exp_lines) - 1) :
        JobNo(k) = j /\ HowOf(k) \cap {"job_start", "dates"} = {}}

\* the lines inside job j that start with a glyph
GlyphLinesOf(j) == {k \in InsideJob(j) : HasGlyph(LineAt(k))}

\* the lines inside job j that are neither tech stack, nor its continuation, nor glyph
\* lines (a job start is never inside a job)
OtherLinesOf(j) ==
    {k \in InsideJob(j) :
        /\ HowOf(k) \cap {"tech", "tech_continuation"} = {}
        /\ ~HasGlyph(LineAt(k))}

\* the last glyph line of its job at or before line k, when there is one
GlyphBefore(k) == {b \in GlyphLinesOf(JobNo(k)) : b <= k}
LastGlyphBefore(k) == CHOOSE b \in GlyphBefore(k) : \A r \in GlyphBefore(k) : r <= b

\* the bullet of glyph line b with the other lines up to line to appended to it, each
\* after a space; trimmed says whether every result is trimmed
RECURSIVE Wrapped(_, _, _)
Wrapped(b, to, trimmed) ==
    IF to <= b THEN StripGlyph(LineAt(b))
    ELSE IF to \notin OtherLinesOf(JobNo(b)) THEN Wrapped(b, to - 1, trimmed)
    ELSE LET joined == Wrapped(b, to - 1, trimmed) \o <<" ">> \o LineAt(to)
         IN  IF trimmed THEN Strip(joined) ELSE joined

\* the last line that can wrap the bullet of glyph line b
WrapEnd(b) ==
    LET later == {g \in GlyphLinesOf(JobNo(b)) : g > b}
    IN  IF later = {} THEN JobEnd(b)
        ELSE (CHOOSE g \in later : \A r \in later : g <= r) - 1

\* an other line is a continuation when its job has a bullet by then, and ignored when not;
\* the job has as many bullets as glyph lines
OtherLinesNeverBullets ==
    \A j \in 1..Len(exp_jobs) :
        /\ \A k \in OtherLinesOf(j) :
              HowOf(k) = IF GlyphBefore(k) # {} THEN {"bullet_continuation"} ELSE {"ignored"}
        /\ Len(exp_jobs[j].bullets) = Cardinality(GlyphLinesOf(j))
        /\ \A b \in GlyphLinesOf(j) : HowOf(b) = {"bullet"}

\* the bullets of every job, when continuation is done as trimmed says
BulletsWrapped(trimmed) ==
    \A j \in 1..Len(exp_jobs) :
        \A b \in GlyphLinesOf(j) :
            /\ BulletPlace(b) \in 1..Len(exp_jobs[j].bullets)
            /\ exp_jobs[j].bullets[BulletPlace(b)] = Wrapped(b, WrapEnd(b), trimmed)

\* C17 as stated: a line of an open job that is no job start, no tech stack line or
\* continuation and no glyph line is appended after a space to the job's last bullet
\* when there is one and discarded when there is none; it never makes a bullet, so a job
\* has as many bullets as glyph lines
C17_OtherLinesSpaceAppended ==
    pc = "returned" => OtherLinesNeverBullets /\ BulletsWrapped(FALSE)

\* C17 as the code has it: the same, and the bullet is trimmed after the line is
\* appended, so that an empty last bullet takes the line without the space
C17_OtherLinesWrapTheLastBullet ==
    pc = "returned" => OtherLinesNeverBullets /\ BulletsWrapped(TRUE)

\* a job with a line discarded before its first bullet and a line wrapped after it
C17_Witness ==
    /\ pc = "returned"
    /\ \E j \in 1..Len(exp_jobs) :
          \E k \in OtherLinesOf(j), w \in OtherLinesOf(j) :
              /\ HowOf(k) = {"ignored"}
              /\ HowOf(w) = {"bullet_continuation"}
              /\ Len(exp_jobs[j].bullets) = 1
              /\ exp_jobs[j].bullets[1] =
                     StripGlyph(LineAt(LastGlyphBefore(w))) \o <<" ">> \o LineAt(w)


\* a line wrapped in square brackets
IsBracketed(ln) == Len(ln) >= 3 /\ ln[1] = "[" /\ ln[Len(ln)] = "]"

\* line k comes directly after a line that opened a job
DirectlyAfterJobStart(k) == k >= 1 /\ HowOf(k - 1) = {"job_start"}

\* the lines of job start shape, but for the bracketed ones directly after a job start
JobStartLines ==
    {k \in 0..(Len(exp_lines) - 1) :
        /\ HasJobStartShape(LineAt(k))
        /\ ~(IsBracketed(LineAt(k)) /\ DirectlyAfterJobStart(k))}

\* C18: the job start test comes before every other line class: a line of job start
\* shape, with a glyph or the tech stack label in front or not, ends the open job and
\* opens a new one with its role, company and location, and is no bullet and no tech
\* stack; only a bracketed line directly after a job start is taken as dates first
C18_JobStartHasPriority ==
    pc = "returned" =>
        /\ \A k \in JobStartLines :
              /\ HowOf(k) = {"job_start"}
              /\ JobNo(k) \in 1..Len(exp_jobs)
              /\ exp_jobs[JobNo(k)].role = JobTitleMatch(LineAt(k)).role
              /\ exp_jobs[JobNo(k)].company = JobTitleMatch(LineAt(k)).company
              /\ exp_jobs[JobNo(k)].location = JobTitleMatch(LineAt(k)).location
              /\ \A j \in 1..(JobNo(k) - 1) : InsideJob(j) \subseteq 0..(k - 1)
        /\ \A k \in 0..(Len(exp_lines) - 1) :
              (IsBracketed(LineAt(k)) /\ DirectlyAfterJobStart(k)) =>
                  /\ HowOf(k) = {"dates"}
                  /\ exp_jobs[JobNo(k)].dates = Strip(SubSeq(LineAt(k), 2, Len(LineAt(k)) - 1))
        /\ Len(exp_jobs) = Cardinality(JobStartLines)

\* an open job ended by a job start behind a glyph and that one by a job start behind
\* the tech stack label, and a bracketed line of job start shape taken as dates
C18_Witness ==
    /\ pc = "returned"
    /\ \E g \in JobStartLines, t \in JobStartLines :
          /\ HasGlyph(LineAt(g)) /\ JobNo(g) >= 2
          /\ HasTechLabel(LineAt(t)) /\ JobNo(t) >= 2
          /\ exp_jobs[JobNo(g)].bullets = <<>>
          /\ exp_jobs[JobNo(t)].tech_stack = <<>>
    /\ \E k \in 0..(Len(exp_lines) - 1) :
          HasJobStartShape(LineAt(k)) /\ HowOf(k) = {"dates"}


\* the job start lines in the order they were consumed
JobStartTrail == SelectSeq(trail, LAMBDA e : e.as = "job_start")

\* the lines before the index are the lines consumed, each once, in increasing order
ConsumedOnce ==
    /\ Len(trail) = cursor
    /\ \A n \in 1..Len(trail) : trail[n].line = n - 1

\* every job opened is in the job list, but for the one still open, in the order of the
\* job start lines
JobsInOrder ==
    /\ Len(exp_jobs) = Len(JobStartTrail) - (IF pc \in {"job", "tech"} THEN 1 ELSE 0)
    /\ \A j \in 1..Len(exp_jobs) :
          LET m == JobTitleMatch(LineAt(JobStartTrail[j].line))
          IN  /\ exp_jobs[j].role = m.role
              /\ exp_jobs[j].company = m.company
              /\ exp_jobs[j].location = m.location

\* a step of a loop advances the index, or leaves the loop where the index stands
AdvancesOrLeaves ==
    \/ cursor' > cursor
    \/ /\ cursor' = cursor
       /\ <<pc, pc'>> \in {<<"tech", "job">>, <<"job", "outer">>, <<"outer", "returned">>}

\* what is left to do: the lines not yet consumed, and the loops to leave
LoopDepth == [outer |-> 1, job |-> 2, tech |-> 3, returned |-> 0]
Remaining == 3 * (Len(exp_lines) - cursor) + LoopDepth[pc]

\* the conditions under which SkipLine, OpenJob, ReturnJobs, CloseJob, TechLine,
\* BulletLine, OtherLine, TechContinue and TechStop can be taken, in this order: the
\* tests of each loop leave no line without a branch
CanStep ==
    LET more == cursor < Len(exp_lines)
    IN  \/ pc = "outer" /\ more /\ ~IsJobStart(LineAt(cursor))
        \/ pc = "outer" /\ more /\ IsJobStart(LineAt(cursor))
        \/ pc = "outer" /\ ~more
        \/ pc = "job" /\ (~more \/ IsJobStart(LineAt(cursor)))
        \/ pc = "job" /\ more /\ ~IsJobStart(LineAt(cursor)) /\ IsTech(LineAt(cursor))
        \/ pc = "job" /\ more /\ ~IsJobStart(LineAt(cursor)) /\ ~IsTech(LineAt(cursor))
              /\ IsBullet(LineAt(cursor))
        \/ pc = "job" /\ more /\ ~IsJobStart(LineAt(cursor)) /\ ~IsTech(LineAt(cursor))
              /\ ~IsBullet(LineAt(cursor))
        \/ pc = "tech" /\ more /\ ~StopsTech(LineAt(cursor))
        \/ pc = "tech" /\ (~more \/ StopsTech(LineAt(cursor)))

====
